---- MODULE Spec2Model ----
(***************************************************************************)
(* Model of the proxy pool manager (class ProxyPool, src/main.py) and of   *)
(* the driver that uses it (main, register_once).                          *)
(*                                                                         *)
(* The pool keeps three collections in memory: all_proxies (list),         *)
(* active_proxies (list) and failed_proxies (dict name -> failure count),  *)
(* guarded by one non-reentrant threading.Lock, and persists the dict in   *)
(* proxy_pool_state.json.  The controller (Clash API) is an external       *)
(* service: it holds the currently selected node and answers every switch  *)
(* request with a status chosen by the environment.                        *)
(*                                                                         *)
(* The session cache (class CookieManager, src/browser_handler.py) keeps   *)
(* one entry per node name in memory and in browser_cookies.json, behind   *)
(* its own lock.  The referral code pool is a global list, merged at       *)
(* start-up from the configuration and referral_pool.json and written      *)
(* back after every append.  Seven specifications share the variables:     *)
(* Spec (pool and driver, register_once as one step), SpecSweep (the       *)
(* sweeps, probe results fixed per node), SpecCache (the cache under       *)
(* concurrent calls), SpecOrch (register_once step by step, one upstream   *)
(* node), SpecCredential (SpecOrch started with the cache files an earlier *)
(* process may have left), SpecMark (mark_proxy_failed statement by        *)
(* statement) and SpecReferral (the referral code pool).                   *)
(***************************************************************************)
EXTENDS Integers, Sequences, FiniteSets, TLC

VARIABLES
    all_proxies,     \* ProxyPool.all_proxies: list of node names
    active_proxies,  \* ProxyPool.active_proxies: list of node names
    failed_proxies,  \* ProxyPool.failed_proxies: dict name -> count
    lock,            \* ProxyPool.lock: the thread that holds it, or NoThread
    state_file,      \* contents of proxy_pool_state.json
    clash_now,       \* node currently selected in the controller's GLOBAL group
    main_pc,         \* position of the main thread in main()
    hc_running,      \* main thread is inside health_check_all's executor block
    hc,              \* futures of the running sweep, one entry per submitted node
    recovered,       \* health_check_all's local list `recovered`
    pc,              \* position of each task thread in register_once
    proxy_name,      \* get_next_proxy's local `proxy_name` of each task
    current_proxy,   \* register_once's local `current_proxy` of each task
    batches,         \* number of batches started so far
    restarts,        \* number of process restarts so far
    last,            \* history: the pool operation that produced this state
    saved,           \* history: pool contents at the latest save_state
    node_health,     \* environment: results a probe of each node can give now
    sweep_log,       \* history: active sets left by the sweeps run in succession
    cookies_cache,   \* CookieManager.cookies_cache: dict key -> entry
    cache_file,      \* contents of browser_cookies.json
    cache_lock,      \* CookieManager.lock: the thread that holds it, or NoThread
    clock,           \* time.time()
    cm_op,           \* the CookieManager call each thread is inside, if any
    cm_hist,         \* history: per argument, the latest set or clear
    cm_last,         \* history: the CookieManager call that just returned
    cookie_manager,  \* main's cookie_manager is not None (browser.enabled)
    reg,             \* locals of each task's register_once run, with history
    success_count,   \* main's success_count
    fail_count,      \* main's fail_count
    task_counter,    \* main's task_counter
    REFERRAL_CODE_POOL,     \* the global list of referral codes
    REFERRAL_POOL_ENABLED,  \* the global flag set by load_referral_pool
    referral_file,          \* contents of referral_pool.json
    referral_pool_config,   \* config['referral_pool']: enabled, initial_codes
    ref_pc,          \* position of main and of each task in the pool's calls
    ref_hist,        \* history: the list read at load, and whether a code
                     \* has been appended since
    mpf,             \* locals of each thread's mark_proxy_failed call, when
                     \* the call is followed statement by statement
    mark_hist        \* history: per node, the calls of mark_proxy_failed
                     \* that returned and the removals from the active list

vars == <<all_proxies, active_proxies, failed_proxies, lock, state_file,
          clash_now, main_pc, hc_running, hc, recovered, pc, proxy_name,
          current_proxy, batches, restarts, last, saved, node_health,
          sweep_log, cookies_cache, cache_file, cache_lock, clock, cm_op,
          cm_hist, cm_last, cookie_manager, reg, success_count, fail_count,
          task_counter, REFERRAL_CODE_POOL, REFERRAL_POOL_ENABLED,
          referral_file, referral_pool_config, ref_pc, ref_hist, mpf,
          mark_hist>>

\* state of the proxy pool and of the driver
pool_vars == <<all_proxies, active_proxies, failed_proxies, lock, state_file,
               clash_now, main_pc, hc_running, hc, recovered, pc, proxy_name,
               current_proxy, batches, restarts, last, saved, node_health,
               sweep_log>>

\* state of the session cache (CookieManager)
cache_vars == <<cookies_cache, cache_file, cache_lock, clock, cm_op, cm_hist,
                cm_last>>

\* state of one register_once run beyond the proxy pool
orch_vars == <<cookie_manager, reg>>

\* locals of main
driver_vars == <<success_count, fail_count, task_counter>>

\* state of the referral code pool
referral_vars == <<REFERRAL_CODE_POOL, REFERRAL_POOL_ENABLED, referral_file,
                   referral_pool_config, ref_pc, ref_hist>>

\* state of the mark_proxy_failed calls followed statement by statement
mark_vars == <<mpf, mark_hist>>

----------------------------------------------------------------------------
(* Bounds and configuration *)

\* config['proxy_pool']['max_failures']
max_failures == 2

\* config['proxy_pool']['concurrent_tasks']
concurrent_tasks == 2

\* batches of register tasks explored
MaxBatches == 1

\* process restarts explored
MaxRestarts == 1

Names == {"A", "B"}

\* node lists the controller may return at process start (the empty list is
\* also what load_proxies_from_clash_api yields when the request fails)
UpstreamLists == {<<"A", "B">>, <<"A">>, <<>>}

\* iteration order used when a dict is written out
KeyOrder == <<"A", "B">>

None == "None"
NoThread == -1
MainThread == 0
Tasks == 1..concurrent_tasks

\* answers of PUT /proxies/GLOBAL: 204, another status, or an exception (0)
SwitchStatuses == {204, 400, 0}

\* last clock value explored
MaxClock == 3

\* retry.max_retries of the config
max_retries == 2

\* email_polling.timeout and email_polling.interval of the config
poll_timeout == 3
poll_interval == 2

\* time one request of poll_emails may take
Latencies == {0, 1}

\* what one POST /api/auth/signup can give: a checkpoint page, status 200 with
\* the expected message, status 200 with another message, another status,
\* a RequestException, a body that is not JSON, or a JSON body that is not
\* an object
SignupResponses == {"checkpoint", "ok", "bad_message", "bad_status",
                    "request_exception", "bad_json", "not_object"}

\* the `count` field of the mailbox answer
Counts == {0, 1, 2}

\* the `emails` field of the mailbox answer: empty (or absent), or not
EmailLists == {"empty", "mail"}

\* proxy_name arguments of the CookieManager calls (None: no node in use)
CacheArgs == {None, "A"}

\* cookie bundles the verification provider may return
Bundles == {"c1", "c2"}

\* a `cookies` member that is an empty dict
EmptyBundle == "empty"

\* max_age arguments of is_expired
MaxAges == {1, 2}

\* config['referral_pool']['initial_codes'] as the operator may write it
SeedLists == {<<>>, <<"X">>, <<"X", "X">>, <<"X", "Y">>}

\* lists a referral_pool.json written by an earlier process may hold
SavedLists == {<<"X">>, <<"Y", "Z">>}

\* referral codes get_referral_stats may return for a new account
NewCodes == {None, "X", "Z"}

\* register_once: `cookie_manager.is_expired(current_proxy, max_age=1800)`
cookie_max_age == 2

\* iteration order used when the cache dict is written out
CacheKeyOrder == <<"default", "A", "B">>

----------------------------------------------------------------------------
(* Helpers on lists and dicts *)

Range(s) == {s[i] : i \in DOMAIN s}

InList(x, s) == x \in Range(s)

\* number of occurrences of x in the list s
Occurrences(x, s) == Cardinality({i \in DOMAIN s : s[i] = x})

\* list.remove(x): drops the first occurrence
ListRemove(s, x) ==
    LET i == CHOOSE k \in DOMAIN s : s[k] = x /\ \A j \in 1..(k-1) : s[j] # x
    IN  SubSeq(s, 1, i-1) \o SubSeq(s, i+1, Len(s))

EmptyDict == [n \in {} |-> 0]

\* failure count of a node, 0 when it has no record
FailureCount(failed, n) == IF n \in DOMAIN failed THEN failed[n] ELSE 0

DictDel(d, n) == [m \in DOMAIN d \ {n} |-> d[m]]

DictSet(d, n, v) == [m \in DOMAIN d \cup {n} |-> IF m = n THEN v ELSE d[m]]

----------------------------------------------------------------------------
(* Persistence: proxy_pool_state.json *)

\* json.dump of the failed_proxies dict: the object's members as a list of
\* <<key, value>> pairs
RECURSIVE DumpFrom(_, _)
DumpFrom(d, i) ==
    IF i > Len(KeyOrder) THEN <<>>
    ELSE (IF KeyOrder[i] \in DOMAIN d
            THEN << <<KeyOrder[i], d[KeyOrder[i]]>> >>
            ELSE <<>>) \o DumpFrom(d, i + 1)

JsonDump(d) == DumpFrom(d, 1)

\* variant of JsonLoad: records below max_failures are dropped on load
JsonLoadEvictedOnly(members) ==
    [n \in {members[i][1] : i \in {k \in DOMAIN members :
                                        members[k][2] >= max_failures}} |->
        LET i == CHOOSE k \in DOMAIN members :
                    /\ members[k][1] = n
                    /\ \A j \in (k+1)..Len(members) : members[j][1] # n
        IN  members[i][2]]

\* json.load of an object: a dict built from the member list, a later member
\* overriding an earlier one with the same key
JsonLoad(members) ==
    [n \in {members[i][1] : i \in DOMAIN members} |->
        LET i == CHOOSE k \in DOMAIN members :
                    /\ members[k][1] = n
                    /\ \A j \in (k+1)..Len(members) : members[j][1] # n
        IN  members[i][2]]

\* the file does not exist / holds text json.load rejects / holds an object
MissingFile == [kind |-> "missing", failed_proxies |-> <<>>]
CorruptFile == [kind |-> "corrupt", failed_proxies |-> <<>>]

\* save_state: the file written from the in-memory dict (the last_updated
\* member is a wall-clock string no handler reads back; it is left out)
SaveState(failed) == [kind |-> "json", failed_proxies |-> JsonDump(failed)]

\* load_state, the dict: the file's failed_proxies member, or the {} set by
\* __init__ when the file is missing or json.load raises
LoadFailed(file) ==
    IF file.kind = "json" THEN JsonLoad(file.failed_proxies) ELSE EmptyDict

\* variant of LoadActive: no node is active when the file cannot be read
LoadActiveFailClosed(all, file) ==
    IF file.kind = "json"
      THEN SelectSeq(all, LAMBDA p : p \notin DOMAIN LoadFailed(file))
      ELSE <<>>

\* load_state, the active list: the nodes of all_proxies that are not a key
\* of the loaded dict; a copy of all_proxies when the file is missing or
\* json.load raises
LoadActive(all, file) ==
    IF file.kind = "json"
      THEN SelectSeq(all, LAMBDA p : p \notin DOMAIN LoadFailed(file))
      ELSE all

----------------------------------------------------------------------------
(* mark_proxy_failed, the body of its critical section *)

\* variant of MarkCount: the count is set to 1 instead of incremented
MarkCountReset(failed, n) == 1

\* the node's count after the increment (a missing record is seeded with 0)
MarkCount(failed, n) == FailureCount(failed, n) + 1

MarkFailedDict(failed, n) == DictSet(failed, n, MarkCount(failed, n))

\* variant of MarkEvicts: the threshold test is > instead of >=
MarkEvictsLate(failed, active, n) ==
    MarkCount(failed, n) > max_failures /\ InList(n, active)

\* the node is removed from the active list (and the state saved)
MarkEvicts(failed, active, n) ==
    MarkCount(failed, n) >= max_failures /\ InList(n, active)

\* variant of MarkActive: the node stays in the active list
MarkActiveKeeps(failed, active, n) == active

MarkActive(failed, active, n) ==
    IF MarkEvicts(failed, active, n) THEN ListRemove(active, n) ELSE active

----------------------------------------------------------------------------
(* switch_proxy and get_next_proxy *)

\* switch_proxy returns True only for status 204
SwitchOk(status) == status = 204

\* the node selected in the controller after a switch request
ClashAfter(now, n, status) == IF status = 204 THEN n ELSE now

\* variant of GnpReturns: the result of switch_proxy is not looked at
GnpReturnsUnchecked(status) == TRUE

\* get_next_proxy returns the chosen node when the switch succeeded
GnpReturns(status) == SwitchOk(status)

----------------------------------------------------------------------------
(* health_check_all, the handling of one completed future *)

\* list(dict.keys())
RECURSIVE KeysFrom(_, _)
KeysFrom(d, i) ==
    IF i > Len(KeyOrder) THEN <<>>
    ELSE (IF KeyOrder[i] \in DOMAIN d THEN <<KeyOrder[i]>> ELSE <<>>)
         \o KeysFrom(d, i + 1)

DictKeys(d) == KeysFrom(d, 1)

\* all_nodes_to_check: the active list followed by the keys of the dict
NodesToCheck(active, failed) == active \o DictKeys(failed)

\* one future per element of all_nodes_to_check
HcEntries(active, failed) ==
    [i \in DOMAIN NodesToCheck(active, failed) |->
        [node |-> NodesToCheck(active, failed)[i], st |-> "queued",
         healthy |-> FALSE, evicted |-> FALSE,
         active0 |-> InList(NodesToCheck(active, failed)[i], active),
         count0 |-> FailureCount(failed, NodesToCheck(active, failed)[i])]]

\* variant of HcMarks: the check result is not looked at
HcMarksHealthy(active, n, healthy) == InList(n, active)

\* first branch: an active node whose check failed goes to mark_proxy_failed
\* (HcRecovers below is the elif branch)
HcMarks(active, n, healthy) == InList(n, active) /\ ~healthy

\* second branch: a node with a failure record whose check passed is recovered
HcRecovers(active, failed, n, healthy) ==
    ~HcMarks(active, n, healthy) /\ n \in DOMAIN failed /\ healthy

\* variant of RecoverFailed: the failure record is kept
RecoverFailedKeepsRecord(failed, n) == failed

RecoverFailed(failed, n) == DictDel(failed, n)

RecoverActive(active, n) ==
    IF ~InList(n, active) THEN Append(active, n) ELSE active

----------------------------------------------------------------------------
(* CookieManager (src/browser_handler.py) *)

\* variant of CacheKey: the argument itself is the key
CacheKeyRaw(arg) == arg

\* `key = proxy_name or 'default'`
CacheKey(arg) == IF arg = None THEN "default" ELSE arg

\* json.dump of the cache dict: its members as <<key, entry>> pairs
RECURSIVE CacheDumpFrom(_, _)
CacheDumpFrom(d, i) ==
    IF i > Len(CacheKeyOrder) THEN <<>>
    ELSE (IF CacheKeyOrder[i] \in DOMAIN d
            THEN << <<CacheKeyOrder[i], d[CacheKeyOrder[i]]>> >>
            ELSE <<>>) \o CacheDumpFrom(d, i + 1)

\* _save_cache
SaveCache(cache) == [kind |-> "json", members |-> CacheDumpFrom(cache, 1)]

MissingCacheFile == [kind |-> "missing", members |-> <<>>]
CorruptCacheFile == [kind |-> "corrupt", members |-> <<>>]

\* _load_cache: the file's object, or {} when the file is missing or
\* json.load raises
LoadCache(file) ==
    IF file.kind = "json" THEN JsonLoad(file.members) ELSE EmptyDict

\* the entry set_cookies stores
CacheEntry(cookies, time) == [cookies |-> cookies, timestamp |-> time]

\* get_cookies: `self.cookies_cache.get(key, {})`; the empty dict is the
\* record with found = FALSE
NoEntry == [found |-> FALSE, cookies |-> None, timestamp |-> 0]

GetCookies(cache, arg) ==
    IF CacheKey(arg) \in DOMAIN cache
      THEN [found |-> TRUE, cookies |-> cache[CacheKey(arg)].cookies,
            timestamp |-> cache[CacheKey(arg)].timestamp]
      ELSE NoEntry

\* set_cookies, the dict after the assignment
SetCookies(cache, arg, cookies, time) ==
    DictSet(cache, CacheKey(arg), CacheEntry(cookies, time))

\* variant of Expired: the comparison is >= instead of >
ExpiredAtMaxAge(age, max_age) == age >= max_age

\* is_expired: `return age > max_age`
Expired(age, max_age) == age > max_age

\* is_expired
IsExpired(cache, arg, max_age, time) ==
    IF CacheKey(arg) \notin DOMAIN cache THEN TRUE
    ELSE Expired(time - cache[CacheKey(arg)].timestamp, max_age)

\* variant of ClearCookies: the entry is looked up by the raw argument
ClearCookiesRawKey(cache, arg) == DictDel(cache, arg)

\* clear_cookies, the dict after the del (unchanged without an entry)
ClearCookies(cache, arg) == DictDel(cache, CacheKey(arg))

\* variant of CacheLockFree: the lock is not looked at
CacheLockIgnored(l) == TRUE

\* `with self.lock` can be entered
CacheLockFree(l) == l = NoThread

\* a CookieManager call and its result
CmCall(op, arg, cookies, max_age, stage) ==
    [op |-> op, arg |-> arg, cookies |-> cookies, max_age |-> max_age,
     stage |-> stage]

NoCall == CmCall("none", None, None, 0, "idle")

CmReturn(op, t, arg, max_age, result, expired) ==
    [op |-> op, thread |-> t, arg |-> arg, max_age |-> max_age,
     result |-> result, expired |-> expired]

NoReturn == CmReturn("none", NoThread, None, 0, NoEntry, FALSE)

\* per argument: whether the latest of its set and clear calls was a set,
\* and that set's bundle and clock value
NeverSet == [set |-> FALSE, cookies |-> None, time |-> 0]

----------------------------------------------------------------------------
(* signup_account, poll_emails and register_once (src/main.py) *)

\* variant of SignupOutcome: a checkpoint page is retried like a bad status
SignupOutcomeRetriesCheckpoint(response) ==
    IF response = "ok" THEN "success"
    ELSE IF response = "not_object" THEN "raised"
    ELSE "retry"

\* signup_account, one pass of the loop body: return need_browser_verification,
\* return success, count a failed attempt, or leave by an exception that
\* neither except clause catches (data.get on a non-object)
SignupOutcome(response) ==
    IF response = "checkpoint" THEN "checkpoint"
    ELSE IF response = "ok" THEN "success"
    ELSE IF response = "not_object" THEN "raised"
    ELSE "retry"

\* variant of SleepsAfter: the delay follows every failed attempt
SleepsAfterEvery(retry_count) == TRUE

\* `if retry_count < max_retries: time.sleep(retry_delay)`, after the increment
SleepsAfter(retry_count) == retry_count < max_retries

\* variant of PollReady: any positive count ends the polling
PollReadyAtLeastOne(count) == count >= 1

\* poll_emails: `if data.get('count') == 1`
PollReady(count) == count = 1

\* verify_email: what the verification request can be answered with
VerifyResponses == {"verified", "not_verified", "checkpoint", "bad_status",
                    "request_error", "not_object"}

\* verify_email: verified, need_browser_verification, a plain failure (a 200
\* answer without verified, another status, RequestException or
\* JSONDecodeError), or an exception no except clause catches
VerifyOutcome(response) ==
    IF response = "verified" THEN "success"
    ELSE IF response = "checkpoint" THEN "checkpoint"
    ELSE IF response = "not_object" THEN "raised"
    ELSE "failed"

\* variant of VerifyNext: a checkpoint page on the retried request starts
\* the refresh again
VerifyNextRefreshesAgain(call, outcome, enabled) ==
    IF outcome = "success" THEN "save"
    ELSE IF outcome = "checkpoint" /\ enabled THEN "refresh"
    ELSE "failed"

\* register_once step 6, where the run goes after a verify_email call: the
\* refresh is inside `if not verify_result['success']` of the first call
\* only, the retried call's result falls through to the second test
VerifyNext(call, outcome, enabled) ==
    IF outcome = "success" THEN "save"
    ELSE IF call = "verify" /\ outcome = "checkpoint" /\ enabled
           THEN "refresh"
    ELSE "failed"

\* variant of UsesCached: an entry is used whatever its bundle
UsesCachedAnyBundle(cached_data) == cached_data.found

\* register_once, the cookie step: `if cached_data:`, `cookies =
\* cached_data.get('cookies', {})` and then `if not cookies:`; the browser is
\* skipped when get_cookies gave an entry whose bundle is not empty
UsesCached(cached_data) ==
    cached_data.found /\ cached_data.cookies # EmptyBundle

\* register_once after signup_account and after poll_emails: `if not
\* account_info['success']` (both branches) and `if not emails`
SignupFailed(signup) == signup # "success"
NoEmails(emails) == emails \in {"timeout", "empty"}

\* variant of MarksNode: every failure return reports the node
MarksNodeEverySite(site, node) == node # None

\* register_once, whether a `return False` site calls mark_proxy_failed
\* first: the return after extract_verification_code does not, the others
\* do under `if proxy_pool and current_proxy`
MarksNode(site, node) == site # "extract" /\ node # None

\* variant of FinishResult: without the new account's referral code the run
\* returns False
FinishResultNeedsReferral(written, referral) ==
    IF ~written THEN "exception"
    ELSE IF referral = "code" THEN "success"
    ELSE "failure"

\* register_once steps 7 and 8: `return True` once save_to_csv has written
\* the account, whatever login_and_get_session and get_referral_stats give
FinishResult(written, referral) ==
    IF written THEN "success" ELSE "exception"

\* variant of Completed: a task that left by an exception is not counted
CompletedDropsExceptions(runs, ok) ==
    Cardinality({t \in DOMAIN runs :
                   runs[t].result = IF ok THEN "success" ELSE "failure"})

\* concurrent_register_task and the as_completed loop: the futures whose
\* result is truthy (ok) or not; an exception out of register_once is
\* returned as False
Completed(runs, ok) ==
    Cardinality({t \in DOMAIN runs : (runs[t].result = "success") = ok})

\* signup_account has returned: its locals are gone, account_info is kept
SignupReturned(r) ==
    [r EXCEPT !.retry_count = 0, !.requests = 0, !.sleeps = 0,
              !.cp_requests = 0]

\* poll_emails has returned: its locals are gone, emails is kept
PollReturned(r) == [r EXCEPT !.elapsed = 0, !.poll_count = -1]

----------------------------------------------------------------------------
(* The referral code pool (src/main.py) *)

\* `list(set(codes))`: the members once each, in an order the hash seed
\* of the process decides
ListOfSet(codes) ==
    {l \in [1..Cardinality(Range(codes)) -> Range(codes)] :
        Range(l) = Range(codes)}

NoDuplicates(l) == \A i, j \in DOMAIN l : l[i] = l[j] => i = j

MissingReferralFile == [kind |-> "missing", codes |-> <<>>]
EmptyReferralFile == [kind |-> "empty", codes |-> <<>>]
CorruptReferralFile == [kind |-> "corrupt", codes |-> <<>>]

\* the file after json.dump of the list
ReferralDump(codes) == [kind |-> "json", codes |-> codes]

ReferralFiles ==
    {MissingReferralFile, EmptyReferralFile, CorruptReferralFile}
        \cup {ReferralDump(l) : l \in SavedLists}

\* load_referral_pool: saved_codes, for a file that exists and is read
\* without an exception
SavedCodes(file) == IF file.kind = "json" THEN file.codes ELSE <<>>

\* load_referral_pool with the pool enabled, the lists the global can hold
\* afterwards: the merge for a file that is empty or holds a list, the
\* copy of initial_codes for a file that is missing or cannot be decoded
LoadReferralPoolResults(initial_codes, file) ==
    IF file.kind \in {"json", "empty"}
      THEN ListOfSet(initial_codes \o SavedCodes(file))
      ELSE {initial_codes}

\* update_referral_pool: `if new_code and new_code not in REFERRAL_CODE_POOL`
UpdateAppends(pool, new_code) == new_code # None /\ ~InList(new_code, pool)

\* the file after the close of save_referral_pool: the buffered dump is
\* written from offset 0, over what another thread's save has written
\* since the open; a shorter dump leaves the tail of the longer one
ReferralWrite(file, buffer) ==
    IF file.kind = "json" /\ Len(file.codes) > Len(buffer)
      THEN CorruptReferralFile
      ELSE ReferralDump(buffer)

\* a call of the pool's functions: where the thread is, its new_code, and
\* the list its save has serialised
RefCall(stage, new_code, buffer) ==
    [stage |-> stage, new_code |-> new_code, buffer |-> buffer]

RefIdle == RefCall("idle", None, <<>>)

----------------------------------------------------------------------------
(* History records *)

Op(op, t, n, count, active, status) ==
    [op |-> op, thread |-> t, node |-> n, count |-> count,
     active |-> active, status |-> status]

NoOp == Op("none", NoThread, None, 0, <<>>, 0)

NothingSaved == [valid |-> FALSE, failed |-> EmptyDict, active |-> <<>>,
                 all |-> <<>>]

NoSweeps == [count |-> 0, before |-> {}, after |-> {}]

\* one more sweep has returned, leaving the active list `active`
SweepDone(log, active) ==
    [count |-> IF log.count < 2 THEN log.count + 1 ELSE 2,
     before |-> log.after, after |-> Range(active)]

\* probe results that do not depend on the node
AnyHealth == [n \in Names |-> BOOLEAN]

Snapshot(failed, active, all) ==
    [valid |-> TRUE, failed |-> failed, active |-> active, all |-> all]

----------------------------------------------------------------------------
(* Initial state: ProxyPool.__init__ of the first process *)

\* no call of mark_proxy_failed in progress
NoMark == [stage |-> "idle", proxy_name |-> None, count |-> 0, wrote |-> 0]

\* no call of mark_proxy_failed has returned for the node
NeverMarked == [calls |-> 0, removals |-> 0]

InitPool ==
    /\ mpf = [t \in Tasks |-> NoMark]
    /\ mark_hist = [n \in Names |-> NeverMarked]
    /\ all_proxies \in UpstreamLists
    /\ state_file \in {MissingFile, CorruptFile}
    /\ failed_proxies = LoadFailed(state_file)
    /\ active_proxies = LoadActive(all_proxies, state_file)
    /\ lock = NoThread
    /\ clash_now = None
    /\ main_pc = "init_hc"
    /\ hc_running = FALSE
    /\ hc = <<>>
    /\ recovered = <<>>
    /\ pc = [t \in Tasks |-> "idle"]
    /\ proxy_name = [t \in Tasks |-> None]
    /\ current_proxy = [t \in Tasks |-> None]
    /\ batches = 0
    /\ restarts = 0
    /\ last = Op("load_state", MainThread, None, 0, <<>>, 0)
    /\ saved = NothingSaved
    /\ sweep_log = NoSweeps
    /\ success_count = 0
    /\ fail_count = 0
    /\ task_counter = 0

\* a register_once run that has not started
NoRun ==
    [retry_count |-> 0, requests |-> 0, sleeps |-> 0, signup |-> "none",
     cp_requests |-> 0, elapsed |-> 0, poll_count |-> -1,
     cached |-> FALSE, cookies |-> None, emails |-> "none", code |-> "none",
     verify |-> "none", verifies |-> 0, refreshes |-> 0, refetches |-> 0,
     referral |-> "none", marks |-> 0, result |-> "none"]

\* main before the first batch; enabled: browser.enabled of the config
InitOrchVars(enabled) ==
    /\ cookie_manager = enabled
    /\ reg = [t \in Tasks |-> NoRun]

\* the module's globals before main runs, with the configuration and the
\* file as found on disk
InitReferralVars(config, file) ==
    /\ REFERRAL_CODE_POOL = <<>>
    /\ REFERRAL_POOL_ENABLED = FALSE
    /\ referral_file = file
    /\ referral_pool_config = config
    /\ ref_pc = [t \in Tasks \cup {MainThread} |->
                   IF t = MainThread THEN RefCall("load", None, <<>>)
                   ELSE RefIdle]
    /\ ref_hist = [saved_codes |-> <<>>, appended |-> FALSE]

\* the referral pool switched off in the configuration: load_referral_pool
\* and update_referral_pool return at once
ReferralPoolOff ==
    InitReferralVars([enabled |-> FALSE, initial_codes |-> <<>>],
                     MissingReferralFile)

\* CookieManager.__init__ with the cache file as found on disk
InitCacheVars(file) ==
    /\ cache_file = file
    /\ cookies_cache = LoadCache(cache_file)
    /\ cache_lock = NoThread
    /\ clock = 0
    /\ cm_op = [t \in Tasks |-> NoCall]
    /\ cm_hist = [a \in CacheArgs |-> NeverSet]
    /\ cm_last = NoReturn

\* a probe of a node may pass or fail at any time
Init ==
    /\ InitPool
    /\ node_health = AnyHealth
    /\ InitCacheVars(MissingCacheFile)
    /\ InitOrchVars(TRUE)
    /\ ReferralPoolOff

\* every probe of a node gives the same result for the whole run
InitSweep ==
    /\ InitPool
    /\ node_health \in [Names -> {{TRUE}, {FALSE}}]
    /\ InitCacheVars(MissingCacheFile)
    /\ InitOrchVars(TRUE)
    /\ ReferralPoolOff

\* one upstream node, its probes always passing or always failing; browser
\* verification enabled or disabled in the config
InitOrch ==
    /\ InitPool
    /\ all_proxies = <<"A">>
    /\ \E a \in BOOLEAN : node_health = [n \in Names |->
                                            IF n = "A" THEN {a} ELSE {TRUE}]
    /\ InitCacheVars(MissingCacheFile)
    /\ \E enabled \in BOOLEAN : InitOrchVars(enabled)
    /\ ReferralPoolOff

\* the referral pool with every seed list and file, one upstream node
InitReferral ==
    /\ InitPool
    /\ all_proxies = <<"A">>
    /\ state_file = MissingFile
    /\ node_health = AnyHealth
    /\ InitCacheVars(MissingCacheFile)
    /\ InitOrchVars(TRUE)
    /\ \E enabled \in BOOLEAN, initial_codes \in SeedLists,
          file \in ReferralFiles :
         InitReferralVars([enabled |-> enabled,
                           initial_codes |-> initial_codes], file)

\* the session cache used by the tasks, the pool left alone
InitCache ==
    /\ InitPool
    /\ all_proxies = <<"A", "B">>
    /\ node_health = AnyHealth
    /\ \E file \in {MissingCacheFile, CorruptCacheFile} : InitCacheVars(file)
    /\ InitOrchVars(TRUE)
    /\ ReferralPoolOff

\* the process is started again (after an interrupt or after main returned):
\* load_proxies_from_clash_api, then load_state, then CookieManager.__init__
Restart ==
    /\ restarts < MaxRestarts
    /\ restarts' = restarts + 1
    /\ all_proxies' \in UpstreamLists
    /\ failed_proxies' = LoadFailed(state_file)
    /\ active_proxies' = LoadActive(all_proxies', state_file)
    /\ lock' = NoThread
    /\ main_pc' = "init_hc"
    /\ hc_running' = FALSE
    /\ hc' = <<>>
    /\ recovered' = <<>>
    /\ pc' = [t \in Tasks |-> "idle"]
    /\ proxy_name' = [t \in Tasks |-> None]
    /\ current_proxy' = [t \in Tasks |-> None]
    /\ last' = Op("load_state", MainThread, None, 0, <<>>, 0)
    /\ sweep_log' = NoSweeps
    /\ cookies_cache' = LoadCache(cache_file)
    /\ cache_lock' = NoThread
    /\ cm_op' = [t \in Tasks |-> NoCall]
    /\ cm_last' = NoReturn
    /\ reg' = [t \in Tasks |-> NoRun]
    /\ success_count' = 0
    /\ fail_count' = 0
    /\ task_counter' = 0
    /\ UNCHANGED <<state_file, clash_now, batches, saved, node_health>>
    /\ UNCHANGED <<cache_file, clock, cm_hist, cookie_manager,
                   referral_vars, mark_vars>>

----------------------------------------------------------------------------
(* mark_proxy_failed: the critical section, run by thread t for node n *)

MarkProxyFailed(t, n) ==
    /\ failed_proxies' = MarkFailedDict(failed_proxies, n)
    /\ active_proxies' = MarkActive(failed_proxies, active_proxies, n)
    /\ IF MarkEvicts(failed_proxies, active_proxies, n)
         THEN /\ state_file' = SaveState(failed_proxies')
              /\ saved' = Snapshot(failed_proxies', active_proxies', all_proxies)
         ELSE UNCHANGED <<state_file, saved>>
    /\ last' = Op("mark_proxy_failed", t, n, FailureCount(failed_proxies, n),
                  active_proxies, 0)

----------------------------------------------------------------------------
(* Task threads: register_once *)

\* get_next_proxy: `with self.lock`
GetNextProxyAcquire(t) ==
    /\ pc[t] = "gnp_acquire"
    /\ lock = NoThread
    /\ lock' = t
    /\ pc' = [pc EXCEPT ![t] = "gnp_body"]
    /\ last' = NoOp
    /\ UNCHANGED <<all_proxies, active_proxies, failed_proxies, state_file,
                   clash_now, main_pc, hc_running, hc, recovered, proxy_name,
                   current_proxy, batches, restarts, saved>>
    /\ UNCHANGED <<node_health, sweep_log, cache_vars, orch_vars, driver_vars,
                   referral_vars, mark_vars>>

\* get_next_proxy: the active list is empty, return None
GetNextProxyEmpty(t) ==
    /\ pc[t] = "gnp_body"
    /\ active_proxies = <<>>
    /\ lock' = NoThread
    /\ current_proxy' = [current_proxy EXCEPT ![t] = None]
    /\ pc' = [pc EXCEPT ![t] = "run"]
    /\ last' = Op("get_next_proxy", t, None, 0, active_proxies, 0)
    /\ UNCHANGED <<all_proxies, active_proxies, failed_proxies, state_file,
                   clash_now, main_pc, hc_running, hc, recovered, proxy_name,
                   batches, restarts, saved>>
    /\ UNCHANGED <<node_health, sweep_log, cache_vars, orch_vars, driver_vars,
                   referral_vars, mark_vars>>

\* get_next_proxy: random.choice, switch_proxy, then return the node or go on
\* to mark_proxy_failed with the lock still held
GetNextProxyChoose(t) ==
    /\ pc[t] = "gnp_body"
    /\ active_proxies # <<>>
    /\ \E i \in DOMAIN active_proxies, status \in SwitchStatuses :
         LET n == active_proxies[i] IN
         /\ proxy_name' = [proxy_name EXCEPT ![t] = n]
         /\ clash_now' = ClashAfter(clash_now, n, status)
         /\ IF GnpReturns(status)
              THEN /\ lock' = NoThread
                   /\ current_proxy' = [current_proxy EXCEPT ![t] = n]
                   /\ pc' = [pc EXCEPT ![t] = "run"]
                   /\ last' = Op("get_next_proxy", t, n, 0, active_proxies,
                                 status)
              ELSE /\ pc' = [pc EXCEPT ![t] = "mpf_wait_nested"]
                   /\ last' = NoOp
                   /\ UNCHANGED <<lock, current_proxy>>
    /\ UNCHANGED <<all_proxies, active_proxies, failed_proxies, state_file,
                   main_pc, hc_running, hc, recovered, batches, restarts,
                   saved>>
    /\ UNCHANGED <<node_health, sweep_log, cache_vars, orch_vars, driver_vars,
                   referral_vars, mark_vars>>

\* the rest of register_once: it ends in success, in a failure that reports
\* the node (when there is one), or in a failure that does not
RegisterOnceRun(t) ==
    /\ pc[t] = "run"
    /\ \E outcome \in {"success", "failure_reported", "failure_unreported"} :
         pc' = [pc EXCEPT ![t] =
                  IF outcome = "failure_reported" /\ current_proxy[t] # None
                    THEN "mpf_wait" ELSE "done"]
    /\ last' = NoOp
    /\ UNCHANGED <<all_proxies, active_proxies, failed_proxies, lock,
                   state_file, clash_now, main_pc, hc_running, hc, recovered,
                   proxy_name, current_proxy, batches, restarts, saved>>
    /\ UNCHANGED <<node_health, sweep_log, cache_vars, orch_vars, driver_vars,
                   referral_vars, mark_vars>>

\* mark_proxy_failed called by a task: `with self.lock` waits until the lock
\* is free (threading.Lock is not reentrant), then runs the critical section.
\* Called from register_once the task ends; called from get_next_proxy the
\* task goes on to the recursive get_next_proxy call.
TaskMarkProxyFailed(t) ==
    /\ pc[t] \in {"mpf_wait", "mpf_wait_nested"}
    /\ lock = NoThread
    /\ MarkProxyFailed(t, IF pc[t] = "mpf_wait" THEN current_proxy[t]
                          ELSE proxy_name[t])
    /\ pc' = [pc EXCEPT ![t] = IF pc[t] = "mpf_wait" THEN "done"
                               ELSE "gnp_acquire"]
    /\ UNCHANGED <<all_proxies, lock, clash_now, main_pc, hc_running, hc,
                   recovered, proxy_name, current_proxy, batches, restarts>>
    /\ UNCHANGED <<node_health, sweep_log, cache_vars, orch_vars, driver_vars,
                   referral_vars, mark_vars>>

----------------------------------------------------------------------------
(* Main thread: health_check_all *)

\* where main() continues after a sweep
AfterSweep(mpc) == IF mpc = "init_hc" THEN "check_active" ELSE "batch"

\* variant: the sweep is also started while the batch is awaited
SweepMayStartAnytime(mpc) == mpc \in {"init_hc", "loop_hc", "wait"}

\* the two places of main() that call health_check_all: before the loop, and
\* at the top of an iteration, before the batch's executor is created
SweepMayStart(mpc) == mpc \in {"init_hc", "loop_hc"}

\* health_check_all up to the submission of the futures; with nothing to
\* check it returns at once, without saving
HealthCheckStart ==
    /\ SweepMayStart(main_pc)
    /\ ~hc_running
    /\ IF NodesToCheck(active_proxies, failed_proxies) = <<>>
         THEN /\ main_pc' = AfterSweep(main_pc)
              /\ last' = Op("health_check_all", MainThread, None, 0, <<>>, 0)
              /\ sweep_log' = SweepDone(sweep_log, active_proxies)
              /\ UNCHANGED <<hc_running, hc>>
         ELSE /\ hc_running' = TRUE
              /\ hc' = HcEntries(active_proxies, failed_proxies)
              /\ last' = NoOp
              /\ UNCHANGED <<main_pc, sweep_log>>
    /\ recovered' = <<>>
    /\ UNCHANGED <<all_proxies, active_proxies, failed_proxies, lock,
                   state_file, clash_now, pc, proxy_name, current_proxy,
                   batches, restarts, saved>>
    /\ UNCHANGED <<node_health, cache_vars, orch_vars, driver_vars,
                   referral_vars, mark_vars>>

\* check_proxy_health in a worker: switch_proxy; a failed switch is the
\* result False
HealthCheckSwitch(i) ==
    /\ hc_running
    /\ i \in DOMAIN hc
    /\ hc[i].st = "queued"
    /\ \E status \in SwitchStatuses :
         /\ SwitchOk(status) \/ FALSE \in node_health[hc[i].node]
         /\ clash_now' = ClashAfter(clash_now, hc[i].node, status)
         /\ hc' = [hc EXCEPT ![i].st = IF SwitchOk(status) THEN "switched"
                                       ELSE "done",
                             ![i].healthy = FALSE]
    /\ last' = NoOp
    /\ UNCHANGED <<all_proxies, active_proxies, failed_proxies, lock,
                   state_file, main_pc, hc_running, recovered, pc, proxy_name,
                   current_proxy, batches, restarts, saved>>
    /\ UNCHANGED <<node_health, sweep_log, cache_vars, orch_vars, driver_vars,
                   referral_vars, mark_vars>>

\* check_proxy_health in a worker: after the sleep, the probe request
\* through the local proxy port, which leaves by the node the controller
\* has selected at that moment; the result is True for status 200 or 204
HealthCheckProbe(i) ==
    /\ hc_running
    /\ i \in DOMAIN hc
    /\ hc[i].st = "switched"
    /\ \E ok \in node_health[clash_now] :
         hc' = [hc EXCEPT ![i].st = "done", ![i].healthy = ok]
    /\ last' = NoOp
    /\ UNCHANGED <<all_proxies, active_proxies, failed_proxies, lock,
                   state_file, clash_now, main_pc, hc_running, recovered, pc,
                   proxy_name, current_proxy, batches, restarts, saved>>
    /\ UNCHANGED <<node_health, sweep_log, cache_vars, orch_vars, driver_vars,
                   referral_vars, mark_vars>>

\* the body of `for future in as_completed(...)` for one completed future
HealthCheckResult(i) ==
    /\ hc_running
    /\ i \in DOMAIN hc
    /\ hc[i].st = "done"
    /\ lock = NoThread
    /\ LET n == hc[i].node
           healthy == hc[i].healthy
       IN
       /\ hc' = [hc EXCEPT ![i].st = "processed",
                           ![i].evicted =
                               /\ ~InList(n, active_proxies)
                               /\ FailureCount(failed_proxies, n) >= max_failures]
       /\ IF HcMarks(active_proxies, n, healthy)
            THEN /\ MarkProxyFailed(MainThread, n)
                 /\ UNCHANGED recovered
            ELSE IF HcRecovers(active_proxies, failed_proxies, n, healthy)
            THEN /\ failed_proxies' = RecoverFailed(failed_proxies, n)
                 /\ active_proxies' = RecoverActive(active_proxies, n)
                 /\ recovered' = IF ~InList(n, active_proxies)
                                   THEN Append(recovered, n) ELSE recovered
                 /\ last' = Op("recover", MainThread, n,
                               FailureCount(failed_proxies, n),
                               active_proxies, 0)
                 /\ UNCHANGED <<state_file, saved>>
            ELSE /\ last' = NoOp
                 /\ UNCHANGED <<failed_proxies, active_proxies, recovered,
                                state_file, saved>>
    /\ UNCHANGED <<all_proxies, lock, clash_now, main_pc, hc_running, pc,
                   proxy_name, current_proxy, batches, restarts>>
    /\ UNCHANGED <<node_health, sweep_log, cache_vars, orch_vars, driver_vars,
                   referral_vars, mark_vars>>

\* every future has been handled: save_state, return
HealthCheckEnd ==
    /\ hc_running
    /\ \A i \in DOMAIN hc : hc[i].st = "processed"
    /\ state_file' = SaveState(failed_proxies)
    /\ saved' = Snapshot(failed_proxies, active_proxies, all_proxies)
    /\ hc_running' = FALSE
    /\ hc' = <<>>
    /\ recovered' = <<>>
    /\ main_pc' = AfterSweep(main_pc)
    /\ last' = Op("health_check_all", MainThread, None, 0, <<>>, 0)
    /\ sweep_log' = SweepDone(sweep_log, active_proxies)
    /\ UNCHANGED <<all_proxies, active_proxies, failed_proxies, lock,
                   clash_now, pc, proxy_name, current_proxy, batches,
                   restarts>>
    /\ UNCHANGED <<node_health, cache_vars, orch_vars, driver_vars,
                   referral_vars, mark_vars>>

----------------------------------------------------------------------------
(* Main thread: main() *)

\* `if not proxy_pool.active_proxies: return`
MainCheckActive ==
    /\ main_pc = "check_active"
    /\ main_pc' = IF active_proxies = <<>> THEN "exited" ELSE "loop"
    /\ last' = NoOp
    /\ UNCHANGED <<all_proxies, active_proxies, failed_proxies, lock,
                   state_file, clash_now, hc_running, hc, recovered, pc,
                   proxy_name, current_proxy, batches, restarts, saved>>
    /\ UNCHANGED <<node_health, sweep_log, cache_vars, orch_vars, driver_vars,
                   referral_vars, mark_vars>>

\* top of the loop: the health check interval has elapsed, or not
MainLoopTop ==
    /\ main_pc = "loop"
    /\ main_pc' \in {"loop_hc", "batch"}
    /\ last' = NoOp
    /\ UNCHANGED <<all_proxies, active_proxies, failed_proxies, lock,
                   state_file, clash_now, hc_running, hc, recovered, pc,
                   proxy_name, current_proxy, batches, restarts, saved>>
    /\ UNCHANGED <<node_health, sweep_log, cache_vars, orch_vars, driver_vars,
                   referral_vars, mark_vars>>

\* the batch: concurrent_tasks tasks are submitted to the executor
MainStartBatch ==
    /\ main_pc = "batch"
    /\ batches < MaxBatches
    /\ batches' = batches + 1
    /\ main_pc' = "wait"
    /\ pc' = [t \in Tasks |-> "gnp_acquire"]
    /\ sweep_log' = NoSweeps
    /\ proxy_name' = [t \in Tasks |-> None]
    /\ current_proxy' = [t \in Tasks |-> None]
    /\ reg' = [t \in Tasks |-> NoRun]
    /\ task_counter' = task_counter + concurrent_tasks
    /\ last' = NoOp
    /\ UNCHANGED <<all_proxies, active_proxies, failed_proxies, lock,
                   state_file, clash_now, hc_running, hc, recovered, restarts,
                   saved>>
    /\ UNCHANGED <<node_health, cache_vars, cookie_manager, success_count,
                   fail_count, referral_vars, mark_vars>>

\* every future of the batch has completed; sleep, next iteration (the
\* results of the runs are not followed here, see MainBatchCounted)
MainBatchDone ==
    /\ main_pc = "wait"
    /\ \A t \in Tasks : pc[t] = "done"
    /\ main_pc' = "loop"
    /\ pc' = [t \in Tasks |-> "idle"]
    /\ last' = NoOp
    /\ UNCHANGED <<all_proxies, active_proxies, failed_proxies, lock,
                   state_file, clash_now, hc_running, hc, recovered,
                   proxy_name, current_proxy, batches, restarts, saved>>
    /\ UNCHANGED <<node_health, sweep_log, cache_vars, orch_vars, driver_vars,
                   referral_vars, mark_vars>>

\* the as_completed loop over the futures of the batch: every result is
\* counted (`if result`) as a success or as a failure; sleep, next iteration
MainBatchCounted ==
    /\ main_pc = "wait"
    /\ \A t \in Tasks : pc[t] = "done"
    /\ main_pc' = "loop"
    /\ pc' = [t \in Tasks |-> "idle"]
    /\ success_count' = success_count + Completed(reg, TRUE)
    /\ fail_count' = fail_count + Completed(reg, FALSE)
    /\ last' = NoOp
    /\ UNCHANGED <<all_proxies, active_proxies, failed_proxies, lock,
                   state_file, clash_now, hc_running, hc, recovered,
                   proxy_name, current_proxy, batches, restarts, saved>>
    /\ UNCHANGED <<node_health, sweep_log, cache_vars, orch_vars,
                   task_counter, referral_vars, mark_vars>>

----------------------------------------------------------------------------
(* Task threads: the steps of register_once after get_next_proxy *)

\* what the pool's state and the other tasks' locals keep in a step of task t
\* that stays outside the pool; a CookieManager call is one step (its lock
\* serialises the calls)
OrchStep ==
    /\ last' = NoOp
    /\ UNCHANGED <<all_proxies, active_proxies, failed_proxies, lock,
                   state_file, clash_now, main_pc, hc_running, hc, recovered,
                   proxy_name, current_proxy, batches, restarts, saved>>
    /\ UNCHANGED <<node_health, sweep_log, cookie_manager, driver_vars,
                   referral_vars, mark_vars>>
    /\ UNCHANGED <<cache_lock, clock, cm_op, cm_hist, cm_last>>

\* the same for a step that makes no call that writes the session cache
OrchFrame ==
    /\ OrchStep
    /\ UNCHANGED <<cookies_cache, cache_file>>

\* a `return False` of register_once at the given site, after the
\* mark_proxy_failed call when the site makes one
ReturnFailure(t, r, site) ==
    /\ reg' = [reg EXCEPT
                 ![t] = [r EXCEPT
                           !.result = "failure",
                           !.marks = IF MarksNode(site, current_proxy[t])
                                       THEN r.marks + 1 ELSE r.marks]]
    /\ pc' = [pc EXCEPT ![t] = IF MarksNode(site, current_proxy[t])
                                 THEN "mpf_wait" ELSE "done"]

\* `if proxy_pool and current_proxy: proxy_pool.mark_proxy_failed(...)` and
\* `return False`
ReturnFailureMarked(t, r) == ReturnFailure(t, r, "request")

\* register_once, the cookie step: without a cookie manager it is skipped,
\* otherwise is_expired(current_proxy, max_age=1800) decides between the
\* cached bundle and the browser
RegisterOnceCookies(t) ==
    /\ pc[t] = "run"
    /\ CacheLockFree(cache_lock)
    /\ pc' = [pc EXCEPT ![t] =
                IF ~cookie_manager THEN "email"
                ELSE IF IsExpired(cookies_cache, current_proxy[t],
                                  cookie_max_age, clock)
                       THEN "provider"
                ELSE "cookie_get"]
    /\ UNCHANGED reg
    /\ OrchFrame

\* get_cookies(current_proxy): a bundle, or nothing when the entry has been
\* cleared since is_expired
RegisterOnceCachedCookies(t) ==
    /\ pc[t] = "cookie_get"
    /\ CacheLockFree(cache_lock)
    /\ LET cached_data == GetCookies(cookies_cache, current_proxy[t]) IN
         /\ pc' = [pc EXCEPT ![t] = IF UsesCached(cached_data) THEN "email"
                                    ELSE "provider"]
         /\ reg' = [reg EXCEPT ![t].cached = UsesCached(cached_data),
                               ![t].cookies = cached_data.cookies]
    /\ OrchFrame

\* what BrowserSession.get_verified_session can return in thread t: the
\* cookies of the browser session it opened, which no other thread's
\* session has, or nothing
VerifiedSessions(t) == {IF t = 1 THEN "c1" ELSE "c2", None}

\* BrowserSession.get_verified_session, then set_cookies(cookies,
\* current_proxy) when the browser returned a bundle
RegisterOnceProvider(t) ==
    /\ pc[t] = "provider"
    /\ CacheLockFree(cache_lock)
    /\ \E cookies \in VerifiedSessions(t) :
         /\ IF cookies # None
              THEN /\ cookies_cache' = SetCookies(cookies_cache,
                                                  current_proxy[t], cookies,
                                                  clock)
                   /\ cache_file' = SaveCache(cookies_cache')
              ELSE UNCHANGED <<cookies_cache, cache_file>>
         /\ reg' = [reg EXCEPT ![t].cookies = cookies]
    /\ pc' = [pc EXCEPT ![t] = "email"]
    /\ OrchStep

\* the referral code, then get_temp_email: None ends the run as a failure
RegisterOnceGetEmail(t) ==
    /\ pc[t] = "email"
    /\ \E email \in BOOLEAN :
         IF email
           THEN /\ pc' = [pc EXCEPT ![t] = "signup"]
                /\ UNCHANGED reg
           ELSE ReturnFailureMarked(t, reg[t])
    /\ OrchFrame

\* signup_account: one pass of `while retry_count < max_retries`, the sleep
\* after a failed attempt included; cp_requests notes the request that was
\* answered by a checkpoint page
SignupRequest(t) ==
    /\ pc[t] = "signup"
    /\ reg[t].retry_count < max_retries
    /\ \E response \in SignupResponses :
         LET sent == [reg[t] EXCEPT
                        !.requests = @ + 1,
                        !.cp_requests = IF response = "checkpoint" /\ @ = 0
                                          THEN reg[t].requests + 1 ELSE @]
             outcome == SignupOutcome(response) IN
         CASE outcome = "checkpoint" ->
                /\ reg' = [reg EXCEPT
                             ![t] = [sent EXCEPT !.signup = "checkpoint"]]
                /\ pc' = [pc EXCEPT ![t] = "signup_done"]
           [] outcome = "success" ->
                /\ reg' = [reg EXCEPT
                             ![t] = [sent EXCEPT !.signup = "success"]]
                /\ pc' = [pc EXCEPT ![t] = "signup_done"]
           [] outcome = "raised" ->
                /\ reg' = [reg EXCEPT
                             ![t] = [SignupReturned(sent) EXCEPT
                                       !.signup = "raised",
                                       !.result = "exception"]]
                /\ pc' = [pc EXCEPT ![t] = "done"]
           [] outcome = "retry" ->
                /\ reg' = [reg EXCEPT
                             ![t] = [sent EXCEPT
                                       !.retry_count = @ + 1,
                                       !.sleeps =
                                          IF SleepsAfter(sent.retry_count + 1)
                                            THEN @ + 1 ELSE @]]
                /\ UNCHANGED pc
    /\ OrchFrame

\* signup_account: the loop is left after max_retries failed attempts
SignupExhausted(t) ==
    /\ pc[t] = "signup"
    /\ reg[t].retry_count >= max_retries
    /\ reg' = [reg EXCEPT ![t].signup = "exhausted"]
    /\ pc' = [pc EXCEPT ![t] = "signup_done"]
    /\ OrchFrame

\* register_once: `if not account_info['success']`, with or without a cookie
\* manager; otherwise poll_emails starts (start_time = time.time())
RegisterOnceAfterSignup(t) ==
    /\ pc[t] = "signup_done"
    /\ IF SignupFailed(reg[t].signup)
         THEN IF reg[t].signup = "checkpoint" /\ cookie_manager
                THEN ReturnFailureMarked(t, SignupReturned(reg[t]))
                ELSE ReturnFailureMarked(t, SignupReturned(reg[t]))
         ELSE /\ pc' = [pc EXCEPT ![t] = "poll"]
              /\ reg' = [reg EXCEPT ![t] = SignupReturned(reg[t])]
    /\ OrchFrame

\* poll_emails: one pass of `while time.time() - start_time < timeout`, the
\* sleep after an answer that is not ready included
PollRequest(t) ==
    /\ pc[t] = "poll"
    /\ reg[t].elapsed < poll_timeout
    /\ \E latency \in Latencies :
         LET polled == [reg[t] EXCEPT !.elapsed = @ + latency] IN
         \/ \E count \in Counts, emails \in EmailLists :
              IF PollReady(count)
                THEN /\ reg' = [reg EXCEPT
                                  ![t] = [polled EXCEPT
                                            !.poll_count = count,
                                            !.emails = emails]]
                     /\ pc' = [pc EXCEPT ![t] = "poll_done"]
                ELSE /\ reg' = [reg EXCEPT
                                  ![t] = [polled EXCEPT
                                            !.elapsed = @ + poll_interval]]
                     /\ UNCHANGED pc
         \* RequestException (raise_for_status included) or JSONDecodeError
         \/ /\ reg' = [reg EXCEPT
                         ![t] = [polled EXCEPT !.elapsed = @ + poll_interval]]
            /\ UNCHANGED pc
         \* a JSON body that is not an object: data.get raises
         \/ /\ reg' = [reg EXCEPT ![t] = [PollReturned(polled) EXCEPT
                                             !.result = "exception"]]
            /\ pc' = [pc EXCEPT ![t] = "done"]
    /\ OrchFrame

\* poll_emails: the loop is left on the clock, `return None`
PollTimeout(t) ==
    /\ pc[t] = "poll"
    /\ reg[t].elapsed >= poll_timeout
    /\ reg' = [reg EXCEPT ![t].emails = "timeout"]
    /\ pc' = [pc EXCEPT ![t] = "poll_done"]
    /\ OrchFrame

\* register_once: `if not emails`
RegisterOnceAfterPoll(t) ==
    /\ pc[t] = "poll_done"
    /\ IF NoEmails(reg[t].emails)
         THEN ReturnFailureMarked(t, PollReturned(reg[t]))
         ELSE /\ pc' = [pc EXCEPT ![t] = "extract"]
              /\ reg' = [reg EXCEPT ![t] = PollReturned(reg[t])]
    /\ OrchFrame

\* register_once step 5, extract_verification_code: without a code the run
\* returns False and reports nothing
RegisterOnceExtract(t) ==
    /\ pc[t] = "extract"
    /\ \E verification_code \in {None, "code"} :
         IF verification_code = None
           THEN ReturnFailure(t, [reg[t] EXCEPT !.code = "missing"],
                              "extract")
           ELSE /\ reg' = [reg EXCEPT ![t].code = "found"]
                /\ pc' = [pc EXCEPT ![t] = "verify"]
    /\ OrchFrame

\* register_once step 6: verify_email, the first call and the call after
\* the refresh; a failure that is not refreshed reports the node and
\* returns False
VerifyEmail(t) ==
    /\ pc[t] \in {"verify", "verify_retry"}
    /\ \E response \in VerifyResponses :
         LET outcome == VerifyOutcome(response)
             sent == [reg[t] EXCEPT !.verifies = @ + 1, !.verify = outcome]
         IN
         IF outcome = "raised"
           THEN /\ reg' = [reg EXCEPT
                             ![t] = [sent EXCEPT !.result = "exception"]]
                /\ pc' = [pc EXCEPT ![t] = "done"]
           ELSE LET next == VerifyNext(pc[t], outcome, cookie_manager) IN
                IF next = "failed"
                  THEN ReturnFailureMarked(t, sent)
                  ELSE /\ reg' = [reg EXCEPT ![t] = sent]
                       /\ pc' = [pc EXCEPT ![t] = next]
    /\ OrchFrame

\* the refresh after a checkpoint page: clear_cookies(current_proxy), which
\* saves the cache when it had an entry
RefreshClear(t) ==
    /\ pc[t] = "refresh"
    /\ CacheLockFree(cache_lock)
    /\ cookies_cache' = ClearCookies(cookies_cache, current_proxy[t])
    /\ cache_file' = IF CacheKey(current_proxy[t]) \in DOMAIN cookies_cache
                       THEN SaveCache(cookies_cache')
                       ELSE cache_file
    /\ reg' = [reg EXCEPT ![t].refreshes = @ + 1]
    /\ pc' = [pc EXCEPT ![t] = "refetch"]
    /\ OrchStep

\* the refresh after a checkpoint page: get_verified_session; with a bundle
\* set_cookies and the retried verify_email, without one the first call's
\* failure stands
RefreshProvider(t) ==
    /\ pc[t] = "refetch"
    /\ CacheLockFree(cache_lock)
    /\ \E cookies \in VerifiedSessions(t) :
         LET fetched == [reg[t] EXCEPT !.refetches = @ + 1,
                                       !.cookies = cookies] IN
         IF cookies # None
           THEN /\ cookies_cache' = SetCookies(cookies_cache,
                                               current_proxy[t], cookies,
                                               clock)
                /\ cache_file' = SaveCache(cookies_cache')
                /\ reg' = [reg EXCEPT ![t] = fetched]
                /\ pc' = [pc EXCEPT ![t] = "verify_retry"]
           ELSE /\ UNCHANGED <<cookies_cache, cache_file>>
                /\ ReturnFailureMarked(t, fetched)
    /\ OrchStep

\* register_once steps 7 and 8: save_to_csv (an error of the write leaves
\* the run by an exception), then the login and the referral code of the
\* new account, whose failure is only logged; `return True`
RegisterOnceFinish(t) ==
    /\ pc[t] = "save"
    /\ \E written \in BOOLEAN, referral \in {"code", "failed"} :
         reg' = [reg EXCEPT
                   ![t].referral = IF written THEN referral ELSE "none",
                   ![t].result = FinishResult(written, referral)]
    /\ pc' = [pc EXCEPT ![t] = "done"]
    /\ OrchFrame

----------------------------------------------------------------------------
(* CookieManager: the four methods, each inside `with self.lock` *)

\* a thread calls a method and enters its `with self.lock` block
CmEnter(t) ==
    /\ cm_op[t].stage = "idle"
    /\ CacheLockFree(cache_lock)
    /\ \E arg \in CacheArgs :
          \/ \E op \in {"get", "clear"} :
                cm_op' = [cm_op EXCEPT ![t] = CmCall(op, arg, None, 0, "body")]
          \/ \E cookies \in Bundles :
                cm_op' = [cm_op EXCEPT
                            ![t] = CmCall("set", arg, cookies, 0, "body")]
          \/ \E max_age \in MaxAges :
                cm_op' = [cm_op EXCEPT
                            ![t] = CmCall("is_expired", arg, None, max_age,
                                          "body")]
    /\ cache_lock' = t
    /\ cm_last' = NoReturn
    /\ UNCHANGED <<cookies_cache, cache_file, clock, cm_hist>>
    /\ UNCHANGED <<pool_vars, orch_vars, driver_vars, referral_vars, mark_vars>>

\* get_cookies
CmGetCookies(t) ==
    /\ cm_op[t].stage = "body"
    /\ cm_op[t].op = "get"
    /\ cm_last' = CmReturn("get", t, cm_op[t].arg, 0,
                           GetCookies(cookies_cache, cm_op[t].arg), FALSE)
    /\ cm_op' = [cm_op EXCEPT ![t] = NoCall]
    /\ cache_lock' = NoThread
    /\ UNCHANGED <<cookies_cache, cache_file, clock, cm_hist>>
    /\ UNCHANGED <<pool_vars, orch_vars, driver_vars, referral_vars, mark_vars>>

\* is_expired
CmIsExpired(t) ==
    /\ cm_op[t].stage = "body"
    /\ cm_op[t].op = "is_expired"
    /\ cm_last' = CmReturn("is_expired", t, cm_op[t].arg, cm_op[t].max_age,
                           NoEntry,
                           IsExpired(cookies_cache, cm_op[t].arg,
                                     cm_op[t].max_age, clock))
    /\ cm_op' = [cm_op EXCEPT ![t] = NoCall]
    /\ cache_lock' = NoThread
    /\ UNCHANGED <<cookies_cache, cache_file, clock, cm_hist>>
    /\ UNCHANGED <<pool_vars, orch_vars, driver_vars, referral_vars, mark_vars>>

\* set_cookies up to the assignment; _save_cache follows
CmSetCookies(t) ==
    /\ cm_op[t].stage = "body"
    /\ cm_op[t].op = "set"
    /\ cookies_cache' = SetCookies(cookies_cache, cm_op[t].arg,
                                   cm_op[t].cookies, clock)
    /\ cm_hist' = [cm_hist EXCEPT
                     ![cm_op[t].arg] = [set |-> TRUE,
                                        cookies |-> cm_op[t].cookies,
                                        time |-> clock]]
    /\ cm_op' = [cm_op EXCEPT ![t].stage = "save"]
    /\ cm_last' = NoReturn
    /\ UNCHANGED <<cache_file, cache_lock, clock>>
    /\ UNCHANGED <<pool_vars, orch_vars, driver_vars, referral_vars, mark_vars>>

\* clear_cookies: with an entry, the del and then _save_cache; without one,
\* nothing
CmClearCookies(t) ==
    /\ cm_op[t].stage = "body"
    /\ cm_op[t].op = "clear"
    /\ cm_hist' = [cm_hist EXCEPT ![cm_op[t].arg] = NeverSet]
    /\ IF CacheKey(cm_op[t].arg) \in DOMAIN cookies_cache
         THEN /\ cookies_cache' = ClearCookies(cookies_cache, cm_op[t].arg)
              /\ cm_op' = [cm_op EXCEPT ![t].stage = "save"]
              /\ cm_last' = NoReturn
              /\ UNCHANGED cache_lock
         ELSE /\ cm_last' = CmReturn("clear", t, cm_op[t].arg, 0, NoEntry,
                                     FALSE)
              /\ cm_op' = [cm_op EXCEPT ![t] = NoCall]
              /\ cache_lock' = NoThread
              /\ UNCHANGED cookies_cache
    /\ UNCHANGED <<cache_file, clock>>
    /\ UNCHANGED <<pool_vars, orch_vars, driver_vars, referral_vars, mark_vars>>

\* _save_cache at the end of set_cookies and clear_cookies, then the lock
\* is released
CmSaveCache(t) ==
    /\ cm_op[t].stage = "save"
    /\ cache_file' = SaveCache(cookies_cache)
    /\ cm_last' = CmReturn(cm_op[t].op, t, cm_op[t].arg, 0, NoEntry, FALSE)
    /\ cm_op' = [cm_op EXCEPT ![t] = NoCall]
    /\ cache_lock' = NoThread
    /\ UNCHANGED <<cookies_cache, clock, cm_hist>>
    /\ UNCHANGED <<pool_vars, orch_vars, driver_vars, referral_vars, mark_vars>>

\* time passes
Tick ==
    /\ clock < MaxClock
    /\ clock' = clock + 1
    /\ cm_last' = NoReturn
    /\ UNCHANGED <<cookies_cache, cache_file, cache_lock, cm_op, cm_hist>>
    /\ UNCHANGED <<pool_vars, orch_vars, driver_vars, referral_vars, mark_vars>>

----------------------------------------------------------------------------
(* mark_proxy_failed statement by statement, called by concurrent threads *)

\* calls of mark_proxy_failed explored
MaxMarks == 4

\* what a step of a mark_proxy_failed call leaves alone
MarkFrame ==
    /\ last' = NoOp
    /\ UNCHANGED <<all_proxies, clash_now, main_pc, hc_running, hc, recovered,
                   pc, proxy_name, current_proxy, batches, restarts,
                   node_health, sweep_log>>
    /\ UNCHANGED <<cache_vars, orch_vars, driver_vars, referral_vars>>

\* calls started so far: the ones that returned and the ones in progress
MarksStarted ==
    LET RECURSIVE Sum(_)
        Sum(S) == IF S = {} THEN 0
                  ELSE LET n == CHOOSE x \in S : TRUE
                       IN mark_hist[n].calls + Sum(S \ {n})
    IN Sum(Names) + Cardinality({t \in Tasks : mpf[t].stage # "idle"})

\* variant of LockFree: `with self.lock` does not wait
LockIgnored(l) == TRUE

\* `with self.lock` is entered when no thread holds the lock
LockFree(l) == l = NoThread

\* register_once calls mark_proxy_failed(current_proxy) for the node it was
\* given, which other calls may have evicted since
MpfCall(t, n) ==
    /\ mpf[t].stage = "idle"
    /\ lock # t
    /\ MarksStarted < MaxMarks
    /\ InList(n, all_proxies)
    /\ mpf' = [mpf EXCEPT ![t] = [NoMark EXCEPT !.stage = "lock",
                                                !.proxy_name = n]]
    /\ UNCHANGED <<active_proxies, failed_proxies, lock, state_file, saved,
                   mark_hist>>
    /\ MarkFrame

\* get_next_proxy calls mark_proxy_failed(proxy_name) for the node whose
\* switch failed, inside its own `with self.lock`
MpfCallNested(t, n) ==
    /\ mpf[t].stage = "idle"
    /\ LockFree(lock)
    /\ MarksStarted < MaxMarks
    /\ InList(n, active_proxies)
    /\ lock' = t
    /\ mpf' = [mpf EXCEPT ![t] = [NoMark EXCEPT !.stage = "lock",
                                                !.proxy_name = n]]
    /\ UNCHANGED <<active_proxies, failed_proxies, state_file, saved,
                   mark_hist>>
    /\ MarkFrame

\* `with self.lock:`
MpfEnter(t) ==
    /\ mpf[t].stage = "lock"
    /\ LockFree(lock)
    /\ lock' = t
    /\ mpf' = [mpf EXCEPT ![t].stage = "seed"]
    /\ UNCHANGED <<active_proxies, failed_proxies, state_file, saved,
                   mark_hist>>
    /\ MarkFrame

\* `if proxy_name not in self.failed_proxies: self.failed_proxies[...] = 0`
MpfSeed(t) ==
    /\ mpf[t].stage = "seed"
    /\ failed_proxies' = IF mpf[t].proxy_name \in DOMAIN failed_proxies
                           THEN failed_proxies
                           ELSE DictSet(failed_proxies, mpf[t].proxy_name, 0)
    /\ mpf' = [mpf EXCEPT ![t].stage = "read"]
    /\ UNCHANGED <<active_proxies, lock, state_file, saved, mark_hist>>
    /\ MarkFrame

\* `self.failed_proxies[proxy_name] += 1`: the read of the count
MpfRead(t) ==
    /\ mpf[t].stage = "read"
    /\ mpf' = [mpf EXCEPT ![t].stage = "write",
                          ![t].count = FailureCount(failed_proxies,
                                                    mpf[t].proxy_name)]
    /\ UNCHANGED <<active_proxies, failed_proxies, lock, state_file, saved,
                   mark_hist>>
    /\ MarkFrame

\* `self.failed_proxies[proxy_name] += 1`: the store of the count read, plus
\* one
MpfWrite(t) ==
    /\ mpf[t].stage = "write"
    /\ failed_proxies' = DictSet(failed_proxies, mpf[t].proxy_name,
                                 mpf[t].count + 1)
    /\ mpf' = [mpf EXCEPT ![t].stage = "test", ![t].wrote = mpf[t].count + 1]
    /\ UNCHANGED <<active_proxies, lock, state_file, saved, mark_hist>>
    /\ MarkFrame

\* `if self.failed_proxies[proxy_name] >= self.max_failures:` and, inside,
\* `if proxy_name in self.active_proxies: self.active_proxies.remove(...)`
MpfTest(t) ==
    /\ mpf[t].stage = "test"
    /\ LET n == mpf[t].proxy_name
           evicts == /\ FailureCount(failed_proxies, n) >= max_failures
                     /\ InList(n, active_proxies)
       IN
       /\ active_proxies' = IF evicts THEN ListRemove(active_proxies, n)
                            ELSE active_proxies
       /\ mark_hist' = IF evicts
                         THEN [mark_hist EXCEPT ![n].removals = @ + 1]
                         ELSE mark_hist
       /\ mpf' = [mpf EXCEPT ![t].stage = IF evicts THEN "save" ELSE "exit"]
    /\ UNCHANGED <<failed_proxies, lock, state_file, saved>>
    /\ MarkFrame

\* `self.save_state()` after the removal
MpfSave(t) ==
    /\ mpf[t].stage = "save"
    /\ state_file' = SaveState(failed_proxies)
    /\ saved' = Snapshot(failed_proxies, active_proxies, all_proxies)
    /\ mpf' = [mpf EXCEPT ![t].stage = "exit"]
    /\ UNCHANGED <<active_proxies, failed_proxies, lock, mark_hist>>
    /\ MarkFrame

\* the end of the `with` block releases the lock; the call returns
MpfExit(t) ==
    /\ mpf[t].stage = "exit"
    /\ lock' = NoThread
    /\ mark_hist' = [mark_hist EXCEPT ![mpf[t].proxy_name].calls = @ + 1]
    /\ mpf' = [mpf EXCEPT ![t].stage = "idle"]
    /\ UNCHANGED <<active_proxies, failed_proxies, state_file, saved>>
    /\ MarkFrame

----------------------------------------------------------------------------
(* The referral code pool: main loads it, the tasks update it *)

ReferralFrame ==
    UNCHANGED <<pool_vars, cache_vars, orch_vars, driver_vars, mark_vars,
                referral_pool_config>>

\* load_referral_pool, the first call of main
LoadReferralPool ==
    /\ ref_pc[MainThread].stage = "load"
    /\ REFERRAL_POOL_ENABLED' = referral_pool_config.enabled
    /\ IF referral_pool_config.enabled
         THEN /\ REFERRAL_CODE_POOL' \in
                    LoadReferralPoolResults(
                        referral_pool_config.initial_codes, referral_file)
              /\ ref_hist' = [ref_hist EXCEPT
                                !.saved_codes = SavedCodes(referral_file)]
         ELSE UNCHANGED <<REFERRAL_CODE_POOL, ref_hist>>
    /\ ref_pc' = [ref_pc EXCEPT ![MainThread] = RefCall("run", None, <<>>)]
    /\ UNCHANGED referral_file
    /\ ReferralFrame

\* update_referral_pool(new_code) at the end of a task's successful run:
\* the two tests
UpdateReferralPool(t) ==
    /\ ref_pc[MainThread].stage = "run"
    /\ ref_pc[t].stage = "idle"
    /\ \E new_code \in NewCodes :
         ref_pc' = [ref_pc EXCEPT
                      ![t] = IF REFERRAL_POOL_ENABLED
                                /\ UpdateAppends(REFERRAL_CODE_POOL, new_code)
                               THEN RefCall("append", new_code, <<>>)
                               ELSE RefCall("returned", new_code, <<>>)]
    /\ UNCHANGED <<REFERRAL_CODE_POOL, REFERRAL_POOL_ENABLED, referral_file,
                   ref_hist>>
    /\ ReferralFrame

\* update_referral_pool: `REFERRAL_CODE_POOL.append(new_code)`
UpdateAppend(t) ==
    /\ ref_pc[t].stage = "append"
    /\ REFERRAL_CODE_POOL' = Append(REFERRAL_CODE_POOL, ref_pc[t].new_code)
    /\ ref_hist' = [ref_hist EXCEPT !.appended = TRUE]
    /\ ref_pc' = [ref_pc EXCEPT ![t].stage = "save"]
    /\ UNCHANGED <<REFERRAL_POOL_ENABLED, referral_file>>
    /\ ReferralFrame

\* save_referral_pool: open(..., 'w') empties the file and json.dump
\* serialises the list as it is now; an exception is printed and the
\* function returns
SaveOpen(t) ==
    /\ ref_pc[t].stage = "save"
    /\ \E opened \in BOOLEAN :
         IF opened
           THEN /\ referral_file' = EmptyReferralFile
                /\ ref_pc' = [ref_pc EXCEPT
                                ![t].stage = "close",
                                ![t].buffer = REFERRAL_CODE_POOL]
           ELSE /\ UNCHANGED referral_file
                /\ ref_pc' = [ref_pc EXCEPT ![t].stage = "returned"]
    /\ UNCHANGED <<REFERRAL_CODE_POOL, REFERRAL_POOL_ENABLED, ref_hist>>
    /\ ReferralFrame

\* save_referral_pool: the end of the `with` block writes the dump
SaveClose(t) ==
    /\ ref_pc[t].stage = "close"
    /\ referral_file' = ReferralWrite(referral_file, ref_pc[t].buffer)
    /\ ref_pc' = [ref_pc EXCEPT ![t] = RefCall("returned", @.new_code, <<>>)]
    /\ UNCHANGED <<REFERRAL_CODE_POOL, REFERRAL_POOL_ENABLED, ref_hist>>
    /\ ReferralFrame

\* update_referral_pool has returned to register_once
UpdateReturn(t) ==
    /\ ref_pc[t].stage = "returned"
    /\ ref_pc' = [ref_pc EXCEPT ![t] = RefIdle]
    /\ UNCHANGED <<REFERRAL_CODE_POOL, REFERRAL_POOL_ENABLED, referral_file,
                   ref_hist>>
    /\ ReferralFrame

NextReferral ==
    \/ LoadReferralPool
    \/ \E t \in Tasks : UpdateReferralPool(t)
    \/ \E t \in Tasks : UpdateAppend(t)
    \/ \E t \in Tasks : SaveOpen(t)
    \/ \E t \in Tasks : SaveClose(t)
    \/ \E t \in Tasks : UpdateReturn(t)

SpecReferral == InitReferral /\ [][NextReferral]_vars

----------------------------------------------------------------------------
(* Specifications *)

NextCache ==
    \/ \E t \in Tasks : CmEnter(t)
    \/ \E t \in Tasks : CmGetCookies(t)
    \/ \E t \in Tasks : CmIsExpired(t)
    \/ \E t \in Tasks : CmSetCookies(t)
    \/ \E t \in Tasks : CmClearCookies(t)
    \/ \E t \in Tasks : CmSaveCache(t)
    \/ Tick

----------------------------------------------------------------------------

Next ==
    \/ Restart
    \/ HealthCheckStart
    \/ \E i \in 1..(2 * Cardinality(Names)) : HealthCheckSwitch(i)
    \/ \E i \in 1..(2 * Cardinality(Names)) : HealthCheckProbe(i)
    \/ \E i \in 1..(2 * Cardinality(Names)) : HealthCheckResult(i)
    \/ HealthCheckEnd
    \/ MainCheckActive
    \/ MainLoopTop
    \/ MainStartBatch
    \/ MainBatchDone
    \/ \E t \in Tasks : GetNextProxyAcquire(t)
    \/ \E t \in Tasks : GetNextProxyEmpty(t)
    \/ \E t \in Tasks : GetNextProxyChoose(t)
    \/ \E t \in Tasks : RegisterOnceRun(t)
    \/ \E t \in Tasks : TaskMarkProxyFailed(t)

Spec == Init /\ [][Next]_vars

\* the sweeps of the main thread by themselves, the one at start-up and
\* the one at the top of the loop, over restarts of the process
NextSweep ==
    \/ Restart
    \/ HealthCheckStart
    \/ \E i \in 1..(2 * Cardinality(Names)) : HealthCheckSwitch(i)
    \/ \E i \in 1..(2 * Cardinality(Names)) : HealthCheckProbe(i)
    \/ \E i \in 1..(2 * Cardinality(Names)) : HealthCheckResult(i)
    \/ HealthCheckEnd
    \/ MainCheckActive
    \/ MainLoopTop

\* two sweeps in succession in an environment where node health does not
\* change
SpecSweep == InitSweep /\ [][NextSweep]_vars

\* both nodes active, no failure recorded; the threads call mark_proxy_failed
InitMark ==
    /\ InitPool
    /\ all_proxies = <<"A", "B">>
    /\ node_health = AnyHealth
    /\ InitCacheVars(MissingCacheFile)
    /\ InitOrchVars(TRUE)
    /\ ReferralPoolOff

NextMark ==
    \E t \in Tasks :
        \/ \E n \in Names : MpfCall(t, n)
        \/ \E n \in Names : MpfCallNested(t, n)
        \/ MpfEnter(t)
        \/ MpfSeed(t)
        \/ MpfRead(t)
        \/ MpfWrite(t)
        \/ MpfTest(t)
        \/ MpfSave(t)
        \/ MpfExit(t)

SpecMark == InitMark /\ [][NextMark]_vars

\* the session cache under concurrent calls
SpecCache == InitCache /\ [][NextCache]_vars

\* one process, every step of register_once
NextOrch ==
    \/ HealthCheckStart
    \/ \E i \in 1..(2 * Cardinality(Names)) : HealthCheckSwitch(i)
    \/ \E i \in 1..(2 * Cardinality(Names)) : HealthCheckProbe(i)
    \/ \E i \in 1..(2 * Cardinality(Names)) : HealthCheckResult(i)
    \/ HealthCheckEnd
    \/ MainCheckActive
    \/ MainLoopTop
    \/ MainStartBatch
    \/ MainBatchCounted
    \/ \E t \in Tasks : GetNextProxyAcquire(t)
    \/ \E t \in Tasks : GetNextProxyEmpty(t)
    \/ \E t \in Tasks : GetNextProxyChoose(t)
    \/ \E t \in Tasks : RegisterOnceCookies(t)
    \/ \E t \in Tasks : RegisterOnceCachedCookies(t)
    \/ \E t \in Tasks : RegisterOnceProvider(t)
    \/ \E t \in Tasks : RegisterOnceGetEmail(t)
    \/ \E t \in Tasks : SignupRequest(t)
    \/ \E t \in Tasks : SignupExhausted(t)
    \/ \E t \in Tasks : RegisterOnceAfterSignup(t)
    \/ \E t \in Tasks : PollRequest(t)
    \/ \E t \in Tasks : PollTimeout(t)
    \/ \E t \in Tasks : RegisterOnceAfterPoll(t)
    \/ \E t \in Tasks : RegisterOnceExtract(t)
    \/ \E t \in Tasks : VerifyEmail(t)
    \/ \E t \in Tasks : RefreshClear(t)
    \/ \E t \in Tasks : RefreshProvider(t)
    \/ \E t \in Tasks : RegisterOnceFinish(t)
    \/ \E t \in Tasks : TaskMarkProxyFailed(t)

SpecOrch == InitOrch /\ [][NextOrch]_vars

\* the timestamp of an entry written more than max_age before the start
StaleTimestamp == 0 - (cookie_max_age + 1)

\* browser_cookies.json as an earlier process may have left it: missing, an
\* entry for the node that is older than max_age, or a recent entry whose
\* bundle is empty
CredentialFiles ==
    {MissingCacheFile,
     SaveCache(SetCookies(EmptyDict, "A", "c1", StaleTimestamp)),
     SaveCache(SetCookies(EmptyDict, "A", EmptyBundle, 0))}

\* one upstream node, its probes always passing or always failing, browser
\* verification enabled, the cache file as found on disk
InitCredential ==
    /\ InitPool
    /\ all_proxies = <<"A">>
    /\ state_file = MissingFile
    /\ \E a \in BOOLEAN : node_health = [n \in Names |->
                                            IF n = "A" THEN {a} ELSE {TRUE}]
    /\ \E file \in CredentialFiles : InitCacheVars(file)
    /\ InitOrchVars(TRUE)
    /\ ReferralPoolOff

SpecCredential == InitCredential /\ [][NextOrch]_vars

----------------------------------------------------------------------------
(* Properties *)

Persisted == LoadFailed(state_file)

\* C1: in the state right after a markFailed call or a healthCheckAll call,
\* every node of allNodes has failureCount >= maxFailures if and only if it is
\* not in the active set
C1_CountIffInactive ==
    last.op \in {"mark_proxy_failed", "health_check_all"} =>
        \A n \in Range(all_proxies) :
            (FailureCount(failed_proxies, n) >= max_failures)
                <=> ~InList(n, active_proxies)

\* C2 as stated: in every reachable state the active set equals allNodes
\* minus the keys of failedNodes
C2_ActiveIsAllMinusFailed ==
    Range(active_proxies) = Range(all_proxies) \ DOMAIN failed_proxies

\* C2 as amended: every node of allNodes without a failure record is active,
\* every active node with a failure record has a count below maxFailures, and
\* right after the first markFailed on an active node (maxFailures > 1) the
\* node is both active and a key of failedNodes, with count 1
C2_ActiveCoversUnfailed ==
    /\ Range(all_proxies) \ DOMAIN failed_proxies \subseteq Range(active_proxies)
    /\ \A n \in Range(active_proxies) \cap DOMAIN failed_proxies :
           failed_proxies[n] < max_failures
    /\ (/\ last.op = "mark_proxy_failed"
        /\ last.count = 0
        /\ InList(last.node, last.active)
        /\ max_failures > 1)
       => /\ InList(last.node, active_proxies)
          /\ last.node \in DOMAIN failed_proxies
          /\ failed_proxies[last.node] = 1

C2_Witness ==
    /\ last.op = "mark_proxy_failed"
    /\ last.count = 0
    /\ InList(last.node, last.active)
    /\ InList(last.node, active_proxies)
    /\ last.node \in DOMAIN failed_proxies

\* C3: right after selectNode returns, a returned node was in the active set
\* when it was chosen, the controller answered its switch with 204 and has it
\* selected; none is returned only when the active set was empty
C3_SelectedNodeSwitchable ==
    last.op = "get_next_proxy" =>
        /\ current_proxy[last.thread] = last.node
        /\ lock # last.thread
        /\ IF last.node # None
             THEN /\ InList(last.node, last.active)
                  /\ last.status = 204
                  /\ clash_now = last.node
             ELSE last.active = <<>>

C3_Witness ==
    /\ last.op = "get_next_proxy"
    /\ last.node # None
    /\ Len(last.active) > 1

\* C4: a selectNode call always terminates: a task inside it never waits for
\* a lock that only the task itself could release
C4_SelectNodeTerminates ==
    \A t \in Tasks : ~(pc[t] = "mpf_wait_nested" /\ lock = t)

C6_OnlyMarkFailedDeactivates ==
    [][ /\ last'.op # "load_state" =>
             \A n \in Range(all_proxies) :
                 (InList(n, active_proxies) /\ ~InList(n, active_proxies'))
                     => (last'.op = "mark_proxy_failed" /\ last'.node = n)
        /\ last'.op = "load_state" =>
             \A n \in Range(all_proxies') :
                 ~InList(n, active_proxies')
                     => FailureCount(failed_proxies', n) >= max_failures ]_vars

\* C7: after a restart with the same upstream node list, the active set
\* loaded by loadState equals the active set at the moment of the last save
C7_PartitionSurvivesRestart ==
    (last.op = "load_state" /\ saved.valid /\ saved.all = all_proxies) =>
        Range(active_proxies) = Range(saved.active)

C9_LoadStateFailsOpen ==
    (last.op = "load_state" /\ state_file.kind \in {"missing", "corrupt"}) =>
        /\ active_proxies = all_proxies
        /\ DOMAIN failed_proxies = {}

C9_Witness ==
    /\ last.op = "load_state"
    /\ state_file.kind = "corrupt"
    /\ restarts > 0
    /\ Len(all_proxies) > 1
    /\ active_proxies = all_proxies

\* C10: when the last result of a sweep has been handled, every evicted node
\* for which the sweep saw a successful probe has no failure record and is in
\* the active set exactly once
C10_RecoveryRestoresNode ==
    (hc_running /\ \A i \in DOMAIN hc : hc[i].st = "processed") =>
        \A i \in DOMAIN hc :
            (hc[i].healthy /\ hc[i].evicted) =>
                /\ hc[i].node \notin DOMAIN failed_proxies
                /\ Occurrences(hc[i].node, active_proxies) = 1

C10_Witness ==
    /\ hc_running
    /\ \A i \in DOMAIN hc : hc[i].st = "processed"
    /\ \E i \in DOMAIN hc : hc[i].healthy /\ hc[i].evicted
    /\ restarts = 0

\* C11: a sweep has one future per node of the union of the active set and
\* the failed keys, and when its last result has been handled every node that
\* was active at the start and whose probe failed has a count one higher than
\* at the start
C11_EachNodeProbedOnce ==
    hc_running =>
        /\ \A i, j \in DOMAIN hc : hc[i].node = hc[j].node => i = j
        /\ (\A i \in DOMAIN hc : hc[i].st = "processed") =>
              \A i \in DOMAIN hc :
                  (hc[i].active0 /\ ~hc[i].healthy) =>
                      FailureCount(failed_proxies, hc[i].node)
                          = hc[i].count0 + 1

C13_ActiveWithinAllNodes ==
    Range(active_proxies) \subseteq Range(all_proxies)

\* C14: a node returned by selectNode is in the active set and below
\* maxFailures when the call returns, so a node evicted earlier is not
\* returned; a markFailed step of one task changes neither the position nor
\* the node of any other task
C14_EvictedNodeNotSelected ==
    [][ /\ (last'.op = "get_next_proxy" /\ last'.node # None) =>
              /\ InList(last'.node, active_proxies')
              /\ FailureCount(failed_proxies', last'.node) < max_failures
        /\ last'.op = "mark_proxy_failed" =>
              \A u \in Tasks \ {last'.thread} :
                  /\ pc'[u] = pc[u]
                  /\ current_proxy'[u] = current_proxy[u] ]_vars

C14_Witness ==
    /\ last.op = "get_next_proxy"
    /\ last.node # None
    /\ \E u \in Tasks \ {last.thread} :
          /\ current_proxy[u] # None
          /\ pc[u] = "done"
          /\ ~InList(current_proxy[u], active_proxies)
          /\ FailureCount(failed_proxies, current_proxy[u]) >= max_failures

\* C15: is_expired answers TRUE for an argument without an entry; with an
\* entry it answers FALSE while the clock has advanced by at most max_age
\* since the set (the set's own clock value included) and TRUE once it has
\* advanced by more
C15_CacheTtl ==
    cm_last.op = "is_expired" =>
        LET h == cm_hist[cm_last.arg] IN
        /\ ~h.set => cm_last.expired
        /\ h.set => (cm_last.expired <=> clock - h.time > cm_last.max_age)

\* an entry whose age is exactly max_age is reported as not expired
C15_Witness ==
    /\ cm_last.op = "is_expired"
    /\ cm_hist[cm_last.arg].set
    /\ clock - cm_hist[cm_last.arg].time = cm_last.max_age
    /\ ~cm_last.expired

\* C16: get_cookies returns the bundle of the latest set_cookies for its
\* argument when no clear_cookies followed it and the empty dict otherwise;
\* no node name stands for key "default"; the entry of every argument is the
\* one its own latest set or clear left, whatever was done for other keys
C16_GetReturnsLatestSet ==
    /\ cm_last.op = "get" =>
          cm_last.result =
              IF cm_hist[cm_last.arg].set
                THEN [found |-> TRUE,
                      cookies |-> cm_hist[cm_last.arg].cookies,
                      timestamp |-> cm_hist[cm_last.arg].time]
                ELSE NoEntry
    /\ cm_hist[None].set <=> "default" \in DOMAIN cookies_cache
    /\ \A a \in CacheArgs :
          IF cm_hist[a].set
            THEN /\ CacheKey(a) \in DOMAIN cookies_cache
                 /\ cookies_cache[CacheKey(a)] =
                        CacheEntry(cm_hist[a].cookies, cm_hist[a].time)
            ELSE CacheKey(a) \notin DOMAIN cookies_cache

\* a get without a node name returns the bundle set for "default" while
\* node A holds another bundle
C16_Witness ==
    /\ cm_last.op = "get"
    /\ cm_last.arg = None
    /\ cm_last.result.found
    /\ "A" \in DOMAIN cookies_cache
    /\ cookies_cache["A"].cookies # cm_last.result.cookies

MarkedOnce(t) ==
    /\ reg[t].result = "failure"
    /\ reg[t].marks = IF current_proxy[t] # None THEN 1 ELSE 0
    /\ pc[t] \in {"mpf_wait", "done", "idle"}
    /\ (pc[t] = "done" /\ current_proxy[t] # None) =>
           current_proxy[t] \in DOMAIN failed_proxies

\* C18: once a signup answer is a checkpoint page, on the first attempt or
\* after failed ones, signup_account returns without a further request, and
\* the run calls mark_proxy_failed for its node exactly once and returns a
\* failure, with a cookie manager or without one
C18_CheckpointShortCircuit ==
    \A t \in Tasks :
        /\ reg[t].cp_requests > 0 =>
              /\ reg[t].requests = reg[t].cp_requests
              /\ reg[t].signup = "checkpoint"
              /\ pc[t] = "signup_done"
        /\ (reg[t].signup = "checkpoint" /\ pc[t] # "signup_done") =>
              /\ MarkedOnce(t)
              /\ reg[t].emails = "none"

\* a run ended by a checkpoint page, without a cookie manager
C18_Witness ==
    \E t \in Tasks :
        /\ reg[t].signup = "checkpoint"
        /\ ~cookie_manager
        /\ pc[t] = "done"
        /\ reg[t].marks = 1

\* C19: without a checkpoint page signup_account sends at most max_retries
\* requests, sleeps once between two consecutive requests and not after the
\* last one, stops at the first success, and after max_retries failed
\* attempts the run returns a failure with one mark_proxy_failed call
C19_SignupRetries ==
    \A t \in Tasks :
        /\ reg[t].requests <= max_retries
        /\ (pc[t] = "signup" /\ reg[t].retry_count < max_retries) =>
              /\ reg[t].requests = reg[t].retry_count
              /\ reg[t].sleeps = reg[t].requests
        /\ (pc[t] = "signup" /\ reg[t].retry_count >= max_retries) =>
              /\ reg[t].requests = max_retries
              /\ reg[t].sleeps = reg[t].requests - 1
        /\ (pc[t] = "signup_done" /\ reg[t].signup = "success") =>
              /\ reg[t].requests = reg[t].retry_count + 1
              /\ reg[t].sleeps = reg[t].requests - 1
        /\ (pc[t] = "signup_done" /\ reg[t].signup = "exhausted") =>
              /\ reg[t].requests = max_retries
              /\ reg[t].retry_count = max_retries
              /\ reg[t].sleeps = max_retries - 1
        /\ (pc[t] # "signup_done" /\ reg[t].signup = "exhausted") =>
              /\ MarkedOnce(t)
              /\ reg[t].emails = "none"
        /\ pc[t] \in {"poll", "poll_done", "verify"} =>
              reg[t].signup = "success"

\* max_retries failed attempts ended the run with one call
C19_Witness ==
    \E t \in Tasks :
        /\ reg[t].signup = "exhausted"
        /\ pc[t] = "done"
        /\ reg[t].marks = 1

\* C20: poll_emails returns a list only from an answer whose count is 1, and
\* goes on polling after any other count; when it returns None on the clock
\* or an empty list, the run returns a failure with one mark_proxy_failed call
C20_PollReadyOnCountOne ==
    \A t \in Tasks :
        /\ (pc[t] = "poll_done" /\ reg[t].emails \in EmailLists) =>
              reg[t].poll_count = 1
        /\ (pc[t] = "poll_done" /\ reg[t].emails = "timeout") =>
              reg[t].elapsed >= poll_timeout
        /\ pc[t] = "poll" => reg[t].emails = "none"
        /\ pc[t] = "extract" => reg[t].emails = "mail"
        /\ (NoEmails(reg[t].emails) /\ pc[t] # "poll_done") => MarkedOnce(t)

\* an empty list in an answer with count 1 ended the run with one call
C20_Witness ==
    \E t \in Tasks :
        /\ reg[t].emails = "empty"
        /\ pc[t] = "done"
        /\ reg[t].marks = 1

\* C21: when poll_emails gives up on the clock, exactly poll_timeout has
\* passed since it started polling
C21_PollTimeoutExact ==
    \A t \in Tasks :
        (pc[t] = "poll_done" /\ reg[t].emails = "timeout") =>
            reg[t].elapsed = poll_timeout

\* C22: a run that finds no verification code in the mails returns a failure
\* without a mark_proxy_failed call, and no step between the mailbox answer
\* and that return changes the pool
C22_ExtractionMissUnreported ==
    \A t \in Tasks :
        reg[t].code = "missing" =>
            /\ reg[t].result = "failure"
            /\ reg[t].marks = 0
            /\ pc[t] \in {"done", "idle"}

\* the run of a task found no code and has returned, its node still in use
C22_Witness ==
    \E t \in Tasks :
        /\ reg[t].code = "missing"
        /\ pc[t] = "done"
        /\ current_proxy[t] # None
        /\ InList(current_proxy[t], active_proxies)

\* C23: a run sends at most two verification requests and refreshes the
\* cookies at most once (one clear_cookies, one browser session), and only
\* after a checkpoint page on the first request; a run whose verification
\* has failed for good has made one mark_proxy_failed call
C23_RecoveryCycleBound ==
    \A t \in Tasks :
        /\ reg[t].verifies <= 2
        /\ reg[t].refreshes <= 1
        /\ reg[t].refetches <= reg[t].refreshes
        /\ reg[t].verifies = 2 => reg[t].refetches = 1
        /\ (reg[t].verify \in {"failed", "checkpoint"}
              /\ pc[t] \notin {"refresh", "refetch", "verify_retry"}) =>
              MarkedOnce(t)

\* a second checkpoint page answered the retried request and ended the run
C23_Witness ==
    \E t \in Tasks :
        /\ reg[t].verifies = 2
        /\ reg[t].verify = "checkpoint"
        /\ reg[t].refreshes = 1
        /\ pc[t] = "done"
        /\ reg[t].marks = 1

\* C24: a run that returns True has made no mark_proxy_failed call, also
\* after the refresh of the verification step or when the referral code of
\* the new account could not be fetched; failed_proxies and active_proxies
\* change only in mark_proxy_failed, called by a failed run or by the sweep,
\* and in the sweep's recovery
C24_SuccessKeepsHealth ==
    /\ [](\A t \in Tasks :
            /\ reg[t].result = "success" =>
                  (reg[t].marks = 0 /\ pc[t] \in {"done", "idle"})
            /\ reg[t].referral = "failed" => reg[t].result = "success")
    /\ [][ (failed_proxies' # failed_proxies
             \/ active_proxies' # active_proxies) =>
               /\ last'.op \in {"mark_proxy_failed", "recover"}
               /\ last'.thread \in Tasks =>
                     reg[last'.thread].result = "failure" ]_vars

\* a run succeeded after the refresh and without the referral code, next to
\* a sibling whose failure evicted the node they share
C24_Witness ==
    \E t \in Tasks :
        /\ reg[t].result = "success"
        /\ reg[t].verifies = 2
        /\ reg[t].referral = "failed"
        /\ current_proxy[t] # None
        /\ ~InList(current_proxy[t], active_proxies)

\* C25: a run for which get_next_proxy returned None goes on without a
\* node: its CookieManager calls work on the entry "default" and leave the
\* other entries alone, and it makes no mark_proxy_failed call
C25_NoProxyRun ==
    /\ [](\A t \in Tasks :
            current_proxy[t] = None =>
                (reg[t].marks = 0 /\ pc[t] # "mpf_wait"))
    /\ [][ \A t \in Tasks :
             (current_proxy[t] = None /\ pc'[t] # pc[t]
              /\ pc[t] \in {"provider", "refresh", "refetch"}) =>
                 \A k \in (DOMAIN cookies_cache \cup DOMAIN cookies_cache')
                          \ {"default"} :
                     /\ k \in DOMAIN cookies_cache
                     /\ k \in DOMAIN cookies_cache'
                     /\ cookies_cache'[k] = cookies_cache[k] ]_vars

\* a run without a node stored its bundle under "default" and succeeded
C25_Witness ==
    \E t \in Tasks :
        /\ current_proxy[t] = None
        /\ reg[t].result = "success"
        /\ "default" \in DOMAIN cookies_cache
        /\ all_proxies # <<>>
        /\ active_proxies = <<>>

\* C26: when the node list could not be fetched (all_proxies is empty), main
\* still goes on to run batches, without a proxy
C26_FailSoftStartup == all_proxies = <<>> => main_pc # "exited"

\* C27: a task that leaves register_once by an exception has ended and is
\* counted as one failure while main goes on; outside a running batch
\* success_count + fail_count is the number of tasks started
C27_ExceptionCountedOnce ==
    /\ \A t \in Tasks :
          reg[t].result = "exception" =>
              (pc[t] \in {"done", "idle"} /\ main_pc # "exited")
    /\ main_pc # "wait" => success_count + fail_count = task_counter
    /\ main_pc = "wait" =>
          success_count + fail_count = task_counter - concurrent_tasks

\* a batch has been counted in which one task raised and its sibling
\* succeeded
C27_Witness ==
    /\ main_pc # "wait"
    /\ \E t, u \in Tasks :
          /\ reg[t].result = "exception"
          /\ reg[u].result = "success"
    /\ success_count = 1
    /\ fail_count = 1

\* C28: the health check interval can run out at any moment, so a sweep can
\* start at any moment, also while the tasks of a batch are in flight
C28_SweepOnCadence == main_pc = "wait" => ENABLED HealthCheckStart

\* task t sends the switch request of get_next_proxy in this step
SwitchRequestBy(t) ==
    /\ pc[t] = "gnp_body"
    /\ active_proxies # <<>>
    /\ pc'[t] \in {"run", "mpf_wait_nested"}

\* C29: a thread that sends a request to the controller does not hold the
\* pool's lock while it does, and no thread holds the pool's lock and the
\* cache's lock together
C29_NoLockAcrossNetwork ==
    [][ /\ \A t \in Tasks : SwitchRequestBy(t) => lock # t
        /\ \A t \in Tasks : ~(lock' = t /\ cache_lock' = t) ]_vars

\* C30: once load_referral_pool has run with the pool enabled, the pool
\* holds every code of initial_codes and of the saved list and no code
\* twice, with or without a file; and when codes have been appended and no
\* update is under way, referral_pool.json holds the list that is in memory
C30_ReferralPoolMerged ==
    (REFERRAL_POOL_ENABLED /\ ref_pc[MainThread].stage = "run") =>
        /\ NoDuplicates(REFERRAL_CODE_POOL)
        /\ Range(referral_pool_config.initial_codes)
              \cup Range(ref_hist.saved_codes)
                 \subseteq Range(REFERRAL_CODE_POOL)
        /\ (ref_hist.appended
              /\ \A t \in Tasks : ref_pc[t].stage = "idle") =>
                 referral_file = ReferralDump(REFERRAL_CODE_POOL)

\* C33: from the return of get_next_proxy until its run ends, the node
\* selected in the controller is the node the task was given
C33_TaskKeepsItsNode ==
    \A t \in Tasks :
        (pc[t] = "run" /\ current_proxy[t] # None) =>
            clash_now = current_proxy[t]

\* C34: a worker of the sweep sends its probe request while the node it
\* switched to is still the one selected in the controller
C34_ProbeThroughOwnNode ==
    [][ \A i \in DOMAIN hc \cap DOMAIN hc' :
            (hc[i].st = "switched" /\ hc'[i].st = "done") =>
                clash_now = hc[i].node ]_vars

\* a task of the batch is between its submission and its return
InFlight(t) == pc[t] \notin {"idle", "done"}

MarksStored(n) ==
    Cardinality({t \in Tasks : /\ mpf[t].proxy_name = n
                               /\ mpf[t].stage \in {"test", "save", "exit"}})

\* C32: concurrent calls of mark_proxy_failed on a node each raise its count
\* by exactly one, the node is taken out of the active list at most once, and
\* it is taken out by the call that brings the count to max_failures
C32_MarkFailedAtomic ==
    /\ [] \A n \in Names :
            /\ FailureCount(failed_proxies, n) =
                   mark_hist[n].calls + MarksStored(n)
            /\ mark_hist[n].removals <= 1
            /\ \A t \in Tasks :
                   ( /\ mpf[t].proxy_name = n
                     /\ mpf[t].stage \in {"save", "exit"}
                     /\ mpf[t].wrote = max_failures ) =>
                       ~InList(n, active_proxies)
    /\ [][ \A n \in Names :
             (InList(n, active_proxies) /\ ~InList(n, active_proxies')) =>
                 \E t \in Tasks :
                     /\ mpf[t].proxy_name = n
                     /\ mpf[t].stage = "test"
                     /\ mpf[t].wrote = max_failures
                     /\ FailureCount(failed_proxies, n) = max_failures ]_vars

\* a call has brought a node's count to max_failures and removed the node
\* while another thread's call on the same node waits for the lock
C32_Witness ==
    \E t, u \in Tasks :
        /\ t # u
        /\ mpf[t].proxy_name = mpf[u].proxy_name
        /\ mpf[t].stage = "lock"
        /\ mpf[u].stage = "save"
        /\ mpf[u].wrote = max_failures
        /\ mark_hist[mpf[u].proxy_name].calls = max_failures - 1
        /\ ~InList(mpf[u].proxy_name, active_proxies)

\* C36: a run that was given a node calls mark_proxy_failed at most once: not
\* at all when it returns True or finds no verification code, and exactly
\* once when it ends in any other way
C36_OneMarkPerFailedRun ==
    \A t \in Tasks :
        (pc[t] \in {"done", "idle"} /\ reg[t].result # "none"
              /\ current_proxy[t] # None) =>
            /\ reg[t].marks <= 1
            /\ (reg[t].result = "success" \/ reg[t].code = "missing") =>
                  reg[t].marks = 0
            /\ (reg[t].result # "success" /\ reg[t].code # "missing") =>
                  reg[t].marks = 1

\* the cache holds an entry for the task's node key that is_expired accepts
\* and whose bundle is not empty
HoldsBundle(t) ==
    /\ ~IsExpired(cookies_cache, current_proxy[t], cookie_max_age, clock)
    /\ GetCookies(cookies_cache, current_proxy[t]).cookies # EmptyBundle

\* C31: with a cookie manager, the cookie step of a run uses the cached
\* bundle of its node key without calling the browser when the cache holds a
\* non-expired, non-empty one; otherwise it calls the browser once, stores a
\* bundle it got under the node key, and without one leaves the cache alone
\* and goes on to the mailbox and the signup with no bundle
C31_AcquireCredential ==
    [][ \A t \in Tasks :
          /\ (pc[t] = "run" /\ pc'[t] # "run" /\ cookie_manager) =>
                pc'[t] = IF IsExpired(cookies_cache, current_proxy[t],
                                      cookie_max_age, clock)
                           THEN "provider" ELSE "cookie_get"
          /\ (pc[t] = "cookie_get" /\ pc'[t] # "cookie_get") =>
                /\ UNCHANGED <<cookies_cache, cache_file>>
                /\ IF HoldsBundle(t)
                     THEN /\ pc'[t] = "email"
                          /\ reg'[t].cookies =
                               cookies_cache[CacheKey(current_proxy[t])].cookies
                          /\ reg'[t].cookies \in Bundles
                     ELSE pc'[t] = "provider"
          /\ (pc[t] # "provider" /\ pc'[t] = "provider") =>
                pc[t] \in {"run", "cookie_get"}
          /\ (pc[t] = "provider" /\ pc'[t] # "provider") =>
                /\ pc'[t] = "email"
                /\ IF reg'[t].cookies # None
                     THEN /\ cookies_cache' =
                               DictSet(cookies_cache,
                                       CacheKey(current_proxy[t]),
                                       CacheEntry(reg'[t].cookies, clock))
                          /\ cache_file' = SaveCache(cookies_cache')
                          /\ reg'[t].cookies \in Bundles
                     ELSE UNCHANGED <<cookies_cache, cache_file>> ]_vars

\* a run took from the cache the bundle that the other run's browser call
\* had just stored for the same node
C31_Witness ==
    \E t, u \in Tasks :
        /\ pc[t] = "email"
        /\ reg[t].cached
        /\ reg[t].cookies \in Bundles
        /\ current_proxy[t] = "A"
        /\ u # t
        /\ ~reg[u].cached
        /\ reg[u].cookies = reg[t].cookies
        /\ cookies_cache["A"].timestamp = clock

====
